---- MODULE Spec2Model ----
(***************************************************************************)
(* Schema validation and preprocessing of the workforce-analysis           *)
(* application: schemas/data_schema.py, utils/data_loader.py,              *)
(* agents/base_agent.py, agents/attrition_agent.py.                        *)
(*                                                                         *)
(* A table (pandas DataFrame) is a sequence of columns, each a record      *)
(* [name, dtype, vals]; a cell is a record [k, n, d, s]:                   *)
(*   k = "num"  the rational n/d (d >= 1, reduced)                         *)
(*   k = "nan"  a missing value (NaN / None)                               *)
(*   k = "nat"  a missing timestamp (NaT)                                  *)
(*   k = "ts"   the timestamp number n                                     *)
(*   k = "str"  the string s                                               *)
(*   k = "z"    a standardised value sign(n) * sqrt(|n| / d)               *)
(* pandas semantics are those of the 1.x line the repository's tests run   *)
(* on (DataFrame.mean drops non-numeric columns, get_dummies gives uint8). *)
(***************************************************************************)
EXTENDS Integers, Sequences, FiniteSets, TLC

VARIABLES df, df0, last, agent, built, disk, config, elsewhere, origin, app

vars == <<df, df0, last, agent, built, disk, config, elsewhere, origin, app>>

----------------------------------------------------------------------------
(* Bounds of the model *)

\* rows of the tables handed to validation
MaxRowsV == 2
\* rows of the tables handed to the preprocessing transforms
MaxRowsT == 4
\* members of the allowed_values list given to a ColumnDefinition
MaxAllowed == 2
\* rows of the tables the agent functions are called on
MaxRowsA == 5
\* rows of a headcount plan and of a hiring pipeline
MaxRowsP == 2

----------------------------------------------------------------------------
(* Cells and rational arithmetic *)

RECURSIVE GCD(_, _)
GCD(a, b) == IF b = 0 THEN a ELSE GCD(b, a % b)

Abs(x) == IF x < 0 THEN 0 - x ELSE x

Cell(k, n, d, s) == [k |-> k, n |-> n, d |-> d, s |-> s]

\* the rational n/d in lowest terms, d > 0
Frac(n, d) ==
    LET g == GCD(Abs(n), Abs(d))
        sg == IF d < 0 THEN 0 - 1 ELSE 1
    IN  Cell("num", (sg * n) \div g, (sg * d) \div g, "")

Num(n) == Cell("num", n, 1, "")
NaN == Cell("nan", 0, 1, "")
NaT == Cell("nat", 0, 1, "")
Ts(t) == Cell("ts", t, 1, "")
Str(s) == Cell("str", 0, 1, s)

\* pandas isnull()
IsNull(c) == c.k \in {"nan", "nat"}

RatAdd(a, b) == Frac(a.n * b.d + b.n * a.d, a.d * b.d)
RatSub(a, b) == Frac(a.n * b.d - b.n * a.d, a.d * b.d)
RatMul(a, b) == Frac(a.n * b.n, a.d * b.d)
RatLess(a, b) == a.n * b.d < b.n * a.d

----------------------------------------------------------------------------
(* Sequences *)

Range(s) == {s[i] : i \in 1..Len(s)}

RECURSIVE SelectSeqBy(_, _)
\* the subsequence of s whose elements are in the set keep, order kept
SelectSeqBy(s, keep) ==
    IF s = <<>> THEN <<>>
    ELSE IF Head(s) \in keep THEN <<Head(s)>> \o SelectSeqBy(Tail(s), keep)
         ELSE SelectSeqBy(Tail(s), keep)

RECURSIVE Unique(_)
\* pandas Series.unique(): distinct values in order of first appearance
Unique(s) ==
    IF s = <<>> THEN <<>>
    ELSE <<Head(s)>> \o Unique(SelectSeqBy(Tail(s), Range(s) \ {Head(s)}))

----------------------------------------------------------------------------
(* Tables *)

ColumnNames(t) == [i \in 1..Len(t) |-> t[i].name]

HasColumn(t, c) == \E i \in 1..Len(t) : t[i].name = c

Column(t, c) == t[CHOOSE i \in 1..Len(t) : t[i].name = c]

Col(name, dtype, vals) == [name |-> name, dtype |-> dtype, vals |-> vals]

\* len(df): the number of rows (0 for a table without columns)
NumRows(t) == IF t = <<>> THEN 0 ELSE Len(t[1].vals)

----------------------------------------------------------------------------
(* schemas/data_schema.py *)

\* ColumnType
INTEGER == "int64"
FLOAT == "float64"
STRING_ == "object"
DATETIME == "datetime64[ns]"
BOOLEAN_ == "bool"

ColumnType == {INTEGER, FLOAT, STRING_, DATETIME, BOOLEAN_}

\* ColumnDefinition; has* = FALSE stands for None
ColumnDefinition(name, type, required, hasAllowed, allowed, hasMin, min, hasMax, max) ==
    [name |-> name, type |-> type, required |-> required,
     hasAllowed |-> hasAllowed, allowed_values |-> allowed,
     hasMin |-> hasMin, min_value |-> min,
     hasMax |-> hasMax, max_value |-> max]

DepartmentValues ==
    <<Str("IT"), Str("HR"), Str("Finance"), Str("Marketing"), Str("Operations"),
      Str("Sales"), Str("Research"), Str("Engineering")>>

AttritionValues == <<Str("Yes"), Str("No")>>

\* HR_SCHEMA, restricted to one column of every shape it declares (an
\* identifier with a lower bound, an integer with both bounds, two enumerated
\* strings, a required and an optional date), in registry order.
HR_SCHEMA ==
    [columns |->
        <<ColumnDefinition("EmployeeNumber", INTEGER, TRUE, FALSE, <<>>, TRUE, 1, FALSE, 0),
          ColumnDefinition("Age", INTEGER, TRUE, FALSE, <<>>, TRUE, 18, TRUE, 100),
          ColumnDefinition("Department", STRING_, TRUE, TRUE, DepartmentValues, FALSE, 0, FALSE, 0),
          ColumnDefinition("Attrition", STRING_, TRUE, TRUE, AttritionValues, FALSE, 0, FALSE, 0),
          ColumnDefinition("HireDate", DATETIME, TRUE, FALSE, <<>>, FALSE, 0, FALSE, 0),
          ColumnDefinition("TerminationDate", DATETIME, FALSE, FALSE, <<>>, FALSE, 0, FALSE, 0)>>,
     primary_key |-> "EmployeeNumber",
     version |-> "1.0.0"]

\* one line of the error message
Msg(kind, col, cols, vals, expected, actual, bound) ==
    [kind |-> kind, col |-> col, cols |-> cols, vals |-> vals,
     expected |-> expected, actual |-> actual, bound |-> bound]

\* the column names a message line contains
NamedIn(m) == IF m.kind = "presence" THEN Range(m.cols) ELSE {m.col} \ {""}

\* Series.isin(values): numbers match by value, strings by text, NaN never
IsIn(c, values) ==
    \E i \in 1..Len(values) :
        /\ ~IsNull(c)
        /\ values[i] = c

\* df[col] < bound and df[col] > bound raise TypeError on a datetime column
\* and on an object column that holds a string
ComparisonRaises(col) ==
    \/ col.dtype = DATETIME
    \/ /\ col.dtype = STRING_
       /\ \E i \in 1..Len(col.vals) : col.vals[i].k = "str"

AnyBelow(col, bound) ==
    \E i \in 1..Len(col.vals) :
        col.vals[i].k = "num" /\ col.vals[i].n < bound * col.vals[i].d

AnyAbove(col, bound) ==
    \E i \in 1..Len(col.vals) :
        col.vals[i].k = "num" /\ col.vals[i].n > bound * col.vals[i].d

\* lines 50-56
TypeErrors(defn, col) ==
    IF col.dtype # defn.type
    THEN <<Msg("type", defn.name, <<>>, <<>>, defn.type, col.dtype, 0)>>
    ELSE <<>>

\* lines 58-64
DomainErrors(defn, col) ==
    LET invalid_values ==
            Unique(SelectSeqBy(col.vals,
                {c \in Range(col.vals) : ~IsIn(c, defn.allowed_values)}))
    IN  IF defn.hasAllowed /\ Len(invalid_values) > 0
        THEN <<Msg("domain", defn.name, <<>>, invalid_values, "", "", 0)>>
        ELSE <<>>

\* lines 66-77: [raised |-> the comparison raised, errs |-> lines appended]
RangeErrors(defn, col) ==
    IF defn.type \notin {INTEGER, FLOAT} THEN [raised |-> FALSE, errs |-> <<>>]
    ELSE IF (defn.hasMin \/ defn.hasMax) /\ ComparisonRaises(col)
    THEN [raised |-> TRUE, errs |-> <<>>]
    ELSE [raised |-> FALSE,
          errs |->
            (IF defn.hasMin /\ AnyBelow(col, defn.min_value)
             THEN <<Msg("min", defn.name, <<>>, <<>>, "", "", defn.min_value)>>
             ELSE <<>>)
            \o
            (IF defn.hasMax /\ AnyAbove(col, defn.max_value)
             THEN <<Msg("max", defn.name, <<>>, <<>>, "", "", defn.max_value)>>
             ELSE <<>>)]

\* lines 41-45
MissingRequired(schema, t) ==
    LET required == {schema.columns[i].name : i \in
                        {j \in 1..Len(schema.columns) :
                            schema.columns[j].required
                            /\ ~HasColumn(t, schema.columns[j].name)}}
    IN  SelectSeqBy([i \in 1..Len(schema.columns) |-> schema.columns[i].name], required)

\* a required-column check that reports the first missing column only
PresenceErrors_first(schema, t) ==
    IF MissingRequired(schema, t) # <<>>
    THEN <<Msg("presence", "", <<Head(MissingRequired(schema, t))>>, <<>>, "", "", 0)>>
    ELSE <<>>

PresenceErrors(schema, t) ==
    IF MissingRequired(schema, t) # <<>>
    THEN <<Msg("presence", "", MissingRequired(schema, t), <<>>, "", "", 0)>>
    ELSE <<>>

RECURSIVE CheckColumns(_, _, _, _)
\* the loop of lines 48-77 from column i on, errors collected so far
CheckColumns(schema, t, i, errors) ==
    IF i > Len(schema.columns) THEN [raised |-> FALSE, errors |-> errors]
    ELSE LET defn == schema.columns[i]
         IN  IF ~HasColumn(t, defn.name)
             THEN CheckColumns(schema, t, i + 1, errors)
             ELSE LET col == Column(t, defn.name)
                      r == RangeErrors(defn, col)
                  IN  IF r.raised
                      THEN [raised |-> TRUE, errors |-> errors]
                      ELSE CheckColumns(schema, t, i + 1,
                               errors \o TypeErrors(defn, col)
                                      \o DomainErrors(defn, col) \o r.errs)

TypeErrorLine == Msg("incomparable", "", <<>>, <<>>, "", "", 0)

\* a validate_dataframe that checks the required columns after the loop
validate_dataframe_presence_last(schema, t) ==
    LET r == CheckColumns(schema, t, 1, <<>>)
        errors == r.errors \o PresenceErrors(schema, t)
    IN  IF r.raised THEN [outcome |-> "TypeError", errors |-> <<TypeErrorLine>>]
        ELSE IF errors # <<>> THEN [outcome |-> "ValueError", errors |-> errors]
        ELSE [outcome |-> "ok", errors |-> <<>>]

\* DataSchema.validate_dataframe: the outcome and the lines of the message
\* of the error raised ("ok": returned True)
DataSchema_validate_dataframe(schema, t) ==
    LET r == CheckColumns(schema, t, 1, PresenceErrors(schema, t))
    IN  IF r.raised THEN [outcome |-> "TypeError", errors |-> <<TypeErrorLine>>]
        ELSE IF r.errors # <<>> THEN [outcome |-> "ValueError", errors |-> r.errors]
        ELSE [outcome |-> "ok", errors |-> <<>>]

\* module-level validate_dataframe
validate_dataframe(t) == DataSchema_validate_dataframe(HR_SCHEMA, t)

----------------------------------------------------------------------------
(* Object identity: the table a local variable is bound to is the caller's  *)
(* object (aliased) or an object of its own.  An in-place pandas operation  *)
(* on an aliased binding changes the caller's table.                        *)

\* a parameter on entry: bound to the caller's object
Enter(t) == [caller |-> t, work |-> t, aliased |-> TRUE]

\* x = f(...): rebinding to a newly created table
NewObject(fr, t) == [caller |-> fr.caller, work |-> t, aliased |-> FALSE]

\* an in-place operation on the bound object
InPlace(fr, t) ==
    IF fr.aliased THEN [caller |-> t, work |-> t, aliased |-> TRUE]
    ELSE [caller |-> fr.caller, work |-> t, aliased |-> FALSE]

\* Series.fillna(value) on one column: null cells become value
FillColumn(col, value) ==
    [col EXCEPT !.vals = [i \in 1..Len(col.vals) |->
                            IF IsNull(col.vals[i]) THEN value ELSE col.vals[i]]]

\* the table with column c replaced
WithColumn(t, c, col) == [i \in 1..Len(t) |-> IF t[i].name = c THEN col ELSE t[i]]

----------------------------------------------------------------------------
(* config/config.py *)

\* DataConfig.max_missing_values = 0.1, as MaxMissingNum / MaxMissingDen
MaxMissingNum == 1
MaxMissingDen == 10

\* DataConfig.validation_strict
validation_strict == TRUE

----------------------------------------------------------------------------
(* utils/data_loader.py *)

NullCount(col) == Cardinality({i \in 1..Len(col.vals) : IsNull(col.vals[i])})

\* lines 64-65: the columns whose share of missing rows exceeds the limit
\* (no column of an empty table: 0/0 is NaN and compares False)
HighMissingCols(t) ==
    SelectSeqBy(ColumnNames(t),
        {t[i].name : i \in {j \in 1..Len(t) :
            /\ NumRows(t) > 0
            /\ NullCount(t[j]) * MaxMissingDen > MaxMissingNum * NumRows(t)}})

\* a fill of the open-ended termination dates with a date instead of NaT
FillTerminationDate_epoch(fr) ==
    InPlace(fr, WithColumn(fr.work, "TerminationDate",
                    FillColumn(Column(fr.work, "TerminationDate"), Ts(0))))

\* line 69: df['TerminationDate'].fillna(pd.NaT, inplace=True)
FillTerminationDate(fr) ==
    InPlace(fr, WithColumn(fr.work, "TerminationDate",
                    FillColumn(Column(fr.work, "TerminationDate"), NaT)))

\* DataLoader._validate_data: outcome, message lines, and the caller's table
\* after the call
DataLoader_validate_data(t) ==
    LET v == DataSchema_validate_dataframe(HR_SCHEMA, t)
        fr == Enter(t)
        high == HighMissingCols(t)
        fr2 == IF "TerminationDate" \in Range(high) THEN FillTerminationDate(fr) ELSE fr
        high2 == SelectSeqBy(high, Range(high) \ {"TerminationDate"})
    IN  IF v.outcome # "ok"
        THEN [outcome |-> v.outcome, errors |-> v.errors, caller |-> t]
        ELSE IF high2 # <<>> /\ validation_strict
        THEN [outcome |-> "ValueError",
              errors |-> <<Msg("missing_values", "", high2, <<>>, "", "", 0)>>,
              caller |-> fr2.caller]
        ELSE [outcome |-> "ok", errors |-> <<>>, caller |-> fr2.caller]

----------------------------------------------------------------------------
(* A preprocessing call in progress: the binding of its working variable,   *)
(* the agent it runs on, the steps run so far, and the exception raised     *)

Pipe(fr, ag, steps, error, lines) ==
    [caller |-> fr.caller, work |-> fr.work, aliased |-> fr.aliased,
     agent |-> ag, steps |-> steps, error |-> error, lines |-> lines]

Frame(p) == [caller |-> p.caller, work |-> p.work, aliased |-> p.aliased]

Begin(t, ag) == Pipe(Enter(t), ag, <<>>, "", <<>>)

\* the step ran to its end and left the binding fr and the agent ag
Ran(p, step, fr, ag) == Pipe(fr, ag, Append(p.steps, step), "", <<>>)

\* the step raised
Raise(p, step, ag, error, lines) == Pipe(Frame(p), ag, Append(p.steps, step), error, lines)

\* what the caller sees when the call ends
Finish(p) ==
    [outcome |-> IF p.error = "" THEN "ok" ELSE p.error,
     errors |-> p.lines,
     out |-> IF p.error = "" THEN p.work ELSE <<>>,
     fresh |-> p.error = "" /\ ~p.aliased,
     caller |-> p.caller,
     agent |-> p.agent,
     steps |-> p.steps]

\* df.copy() bound to the same object instead of a copy
Copy_alias(p) ==
    IF p.error # "" THEN p ELSE Ran(p, "copy", Frame(p), p.agent)

\* df_processed = df.copy()
Copy(p) ==
    IF p.error # "" THEN p ELSE Ran(p, "copy", NewObject(Frame(p), p.work), p.agent)

----------------------------------------------------------------------------
(* pandas operations of the transforms *)

\* the strings of the model in Python's sort order
SortedStrings ==
    <<"2020-01-31", "2023-12-31", "Finance", "HR", "IT", "Invalid", "No", "Yes", "x">>

StrRank(str) == CHOOSE i \in 1..Len(SortedStrings) : SortedStrings[i] = str

\* a < b for two numbers or two strings (a number sorts before a string)
CellLess(a, b) ==
    IF a.k = "str" /\ b.k = "str" THEN StrRank(a.s) < StrRank(b.s)
    ELSE IF a.k = "str" \/ b.k = "str" THEN b.k = "str" /\ a.k # "str"
    ELSE RatLess(a, b)

RECURSIVE SortCells(_)
\* the cells of a set in ascending order
SortCells(S) ==
    IF S = {} THEN <<>>
    ELSE LET least == CHOOSE x \in S : \A y \in S \ {x} : CellLess(x, y)
         IN  <<least>> \o SortCells(S \ {least})

NonNull(col) == {c \in Range(col.vals) : ~IsNull(c)}

\* str(value) in a column name
CellText(c) == IF c.k = "str" THEN c.s ELSE ToString(c.n)

\* indicator columns for every category, none left out
Dummies_keep_all(col, drop_first) ==
    LET kept == SortCells(NonNull(col))
    IN  [j \in 1..Len(kept) |->
            Col(col.name \o "_" \o CellText(kept[j]), "uint8",
                [i \in 1..Len(col.vals) |->
                    IF col.vals[i] = kept[j] THEN Num(1) ELSE Num(0)])]

\* the indicator columns of one column: one per category in sorted order,
\* the first left out under drop_first; a missing cell is 0 in each
Dummies(col, drop_first) ==
    LET categories == SortCells(NonNull(col))
        kept == IF drop_first /\ categories # <<>> THEN Tail(categories) ELSE categories
    IN  [j \in 1..Len(kept) |->
            Col(col.name \o "_" \o CellText(kept[j]), "uint8",
                [i \in 1..Len(col.vals) |->
                    IF col.vals[i] = kept[j] THEN Num(1) ELSE Num(0)])]

RECURSIVE AllDummies(_, _, _)
AllDummies(t, columns, drop_first) ==
    IF columns = <<>> THEN <<>>
    ELSE Dummies(Column(t, Head(columns)), drop_first)
            \o AllDummies(t, Tail(columns), drop_first)

RECURSIVE WithoutColumns(_, _)
\* df.drop(names, axis=1, errors='ignore')
WithoutColumns(t, names) ==
    IF t = <<>> THEN <<>>
    ELSE IF Head(t).name \in names THEN WithoutColumns(Tail(t), names)
         ELSE <<Head(t)>> \o WithoutColumns(Tail(t), names)

\* pd.get_dummies(t, columns=columns, drop_first=drop_first) for a non-empty
\* list of columns of t: the other columns, then the indicator columns
get_dummies(t, columns, drop_first) ==
    WithoutColumns(t, Range(columns)) \o AllDummies(t, columns, drop_first)

IsNumericDtype(dtype) == dtype \in {INTEGER, FLOAT, "uint8", BOOLEAN_}

\* the numeric cells of a column, one per row that holds one
NumericRows(col) == {i \in 1..Len(col.vals) : col.vals[i].k = "num"}

RECURSIVE SumRows(_, _)
SumRows(col, rows) ==
    IF rows = {} THEN Num(0)
    ELSE LET i == CHOOSE x \in rows : TRUE
         IN  RatAdd(col.vals[i], SumRows(col, rows \ {i}))

\* Series.mean(): the mean of the non-missing values, NaN when there is none
Mean(col) ==
    LET rows == NumericRows(col)
    IN  IF rows = {} THEN NaN
        ELSE LET total == SumRows(col, rows)
             IN  Frac(total.n, total.d * Cardinality(rows))

\* a fill with the least value instead of the mean
MeanFill_min(col) ==
    IF IsNumericDtype(col.dtype) /\ NonNull(col) # {}
    THEN FillColumn(col, SortCells(NonNull(col))[1])
    ELSE col

\* col.fillna(col.mean()) as DataFrame.fillna(DataFrame.mean()) does it: a
\* column that is not numeric has no mean and is left as it is, and so is a
\* column without any value
MeanFill(col) ==
    IF IsNumericDtype(col.dtype) /\ ~IsNull(Mean(col))
    THEN FillColumn(col, Mean(col))
    ELSE col

----------------------------------------------------------------------------
(* utils/data_loader.py: DataLoader._preprocess_data *)

SchemaColumnNames(schema) == [i \in 1..Len(schema.columns) |-> schema.columns[i].name]

\* line 95: the STRING columns that are expanded
LoaderExcluded ==
    {"Department", "JobRole", "Attrition", "EducationField", "Gender", "MaritalStatus"}

\* lines 94-95
LoaderCategoricalCols(schema) ==
    SelectSeqBy(SchemaColumnNames(schema),
        {schema.columns[i].name : i \in {j \in 1..Len(schema.columns) :
            /\ schema.columns[j].type = STRING_
            /\ schema.columns[j].name \notin LoaderExcluded}})

\* lines 96-97
LoaderNumericCols(schema) ==
    SelectSeqBy(SchemaColumnNames(schema),
        {schema.columns[i].name : i \in {j \in 1..Len(schema.columns) :
            schema.columns[j].type \in {INTEGER, FLOAT}}})

\* line 100: get_dummies returns its argument when no column is to be
\* encoded, raises KeyError for a listed column the table lacks
LoaderExpand(p) ==
    LET columns == LoaderCategoricalCols(HR_SCHEMA)
        absent == SelectSeqBy(columns, Range(columns) \ Range(ColumnNames(p.work)))
    IN  IF p.error # "" THEN p
        ELSE IF columns = <<>> THEN Ran(p, "categorical_expansion", Frame(p), p.agent)
        ELSE IF absent # <<>>
        THEN Raise(p, "categorical_expansion", p.agent, "KeyError",
                   <<Msg("not_in_index", "", absent, <<>>, "", "", 0)>>)
        ELSE Ran(p, "categorical_expansion",
                 NewObject(Frame(p), get_dummies(p.work, columns, TRUE)), p.agent)

\* line 103: df_processed[numeric_cols] = df_processed[numeric_cols].fillna(
\* df_processed[numeric_cols].mean()); selecting a column the table lacks
\* raises KeyError, the assignment is in place
LoaderImpute(p) ==
    LET columns == LoaderNumericCols(HR_SCHEMA)
        absent == SelectSeqBy(columns, Range(columns) \ Range(ColumnNames(p.work)))
    IN  IF p.error # "" THEN p
        ELSE IF absent # <<>>
        THEN Raise(p, "imputation", p.agent, "KeyError",
                   <<Msg("not_in_index", "", absent, <<>>, "", "", 0)>>)
        ELSE Ran(p, "imputation",
                 InPlace(Frame(p),
                    [i \in 1..Len(p.work) |->
                        IF p.work[i].name \in Range(columns)
                        THEN MeanFill(p.work[i]) ELSE p.work[i]]),
                 p.agent)

\* lines 105-109
LoaderConsistencyCheck(p) ==
    LET missing_cols == MissingRequired(HR_SCHEMA, p.work)
    IN  IF p.error # "" THEN p
        ELSE IF missing_cols # <<>>
        THEN Raise(p, "consistency_check", p.agent, "ValueError",
                   <<Msg("presence_after", "", missing_cols, <<>>, "", "", 0)>>)
        ELSE Ran(p, "consistency_check", Frame(p), p.agent)

\* the transform with the fill done before the expansion
DataLoader_preprocess_data_impute_first(t, ag) ==
    Finish(LoaderConsistencyCheck(LoaderExpand(LoaderImpute(Copy(Begin(t, ag))))))

\* DataLoader._preprocess_data
DataLoader_preprocess_data(t, ag) ==
    Finish(LoaderConsistencyCheck(LoaderImpute(LoaderExpand(Copy(Begin(t, ag))))))

----------------------------------------------------------------------------
(* agents/attrition_agent.py: preprocess_data *)

\* line 146: df.drop(['HireDate', 'TerminationDate'], axis=1, errors='ignore')
\* the drop taking the key column with the dates
AttritionDropDates_and_key(p) ==
    IF p.error # "" THEN p
    ELSE Ran(p, "drop_dates",
             NewObject(Frame(p),
                WithoutColumns(p.work, {"HireDate", "TerminationDate", "EmployeeNumber"})),
             p.agent)

AttritionDropDates(p) ==
    IF p.error # "" THEN p
    ELSE Ran(p, "drop_dates",
             NewObject(Frame(p), WithoutColumns(p.work, {"HireDate", "TerminationDate"})),
             p.agent)

\* line 149: the object columns except 'Attrition', in column order
AttritionCategoricalCols(t) ==
    SelectSeqBy(ColumnNames(t),
        {t[i].name : i \in {j \in 1..Len(t) :
            t[j].dtype = STRING_ /\ t[j].name # "Attrition"}})

\* line 150
AttritionExpand(p) ==
    LET columns == AttritionCategoricalCols(p.work)
    IN  IF p.error # "" THEN p
        ELSE IF columns = <<>> THEN Ran(p, "categorical_expansion", Frame(p), p.agent)
        ELSE Ran(p, "categorical_expansion",
                 NewObject(Frame(p), get_dummies(p.work, columns, TRUE)), p.agent)

\* line 153: df_processed = df_processed.fillna(df_processed.mean())
AttritionImpute(p) ==
    IF p.error # "" THEN p
    ELSE Ran(p, "imputation",
             NewObject(Frame(p), [i \in 1..Len(p.work) |-> MeanFill(p.work[i])]),
             p.agent)

\* preprocess_data of agents/attrition_agent.py
preprocess_data(t, ag) ==
    Finish(AttritionImpute(AttritionExpand(AttritionDropDates(Begin(t, ag)))))

----------------------------------------------------------------------------
(* config/config.py: DataConfig of Config.from_env, for the modelled columns *)

numeric_columns == <<"Age">>
categorical_columns == <<"Department", "Attrition">>
date_columns == <<"HireDate", "TerminationDate">>
preprocessing_steps ==
    {"handle_missing_values", "convert_dates", "encode_categorical", "scale_numeric"}

----------------------------------------------------------------------------
(* agents/base_agent.py: BaseAgent.preprocess_data *)

RECURSIVE SortedValues(_, _)
\* the values of the rows of a column in ascending order, repeats kept
SortedValues(col, rows) ==
    IF rows = {} THEN <<>>
    ELSE LET i == CHOOSE x \in rows :
                    \A y \in rows : ~CellLess(col.vals[y], col.vals[x])
         IN  <<col.vals[i]>> \o SortedValues(col, rows \ {i})

\* Series.median(): the middle of the sorted non-missing values, the mean of
\* the two middle ones when their number is even, NaN when there is none
Median(col) ==
    LET sorted == SortedValues(col, NumericRows(col))
        n == Len(sorted)
    IN  IF n = 0 THEN NaN
        ELSE IF n % 2 = 1 THEN sorted[(n + 1) \div 2]
        ELSE LET two == RatAdd(sorted[n \div 2], sorted[n \div 2 + 1])
             IN  Frac(two.n, two.d * 2)

Count(col, c) == Cardinality({i \in 1..Len(col.vals) : col.vals[i] = c})

\* the most frequent values in the order of their first row
Mode_first(col) ==
    SelectSeqBy(Unique(col.vals),
        {c \in NonNull(col) : \A o \in NonNull(col) : Count(col, o) <= Count(col, c)})

\* Series.mode(): the most frequent non-missing values in ascending order
Mode(col) ==
    SortCells({c \in NonNull(col) : \A o \in NonNull(col) : Count(col, o) <= Count(col, c)})

HasNull(col) == \E i \in 1..Len(col.vals) : IsNull(col.vals[i])

HasString(col) == \E i \in 1..Len(col.vals) : col.vals[i].k = "str"

RECURSIVE FillNumeric(_, _)
\* lines 52-54, for the columns given
FillNumeric(p, columns) ==
    IF p.error # "" \/ columns = <<>> THEN p
    ELSE LET c == Head(columns)
         IN  IF ~(HasColumn(p.work, c) /\ HasNull(Column(p.work, c)))
             THEN FillNumeric(p, Tail(columns))
             ELSE IF HasString(Column(p.work, c))
             THEN Pipe(Frame(p), p.agent, p.steps, "TypeError", <<>>)
             ELSE LET col == Column(p.work, c)
                      filled == IF IsNull(Median(col)) THEN col
                                ELSE FillColumn(col, Median(col))
                  IN  FillNumeric(
                        Pipe(InPlace(Frame(p), WithColumn(p.work, c, filled)),
                             p.agent, p.steps, "", <<>>),
                        Tail(columns))

RECURSIVE FillCategorical(_, _)
\* lines 56-58, for the columns given; mode()[0] of a column without any
\* value raises KeyError
FillCategorical(p, columns) ==
    IF p.error # "" \/ columns = <<>> THEN p
    ELSE LET c == Head(columns)
         IN  IF ~(HasColumn(p.work, c) /\ HasNull(Column(p.work, c)))
             THEN FillCategorical(p, Tail(columns))
             ELSE IF Mode(Column(p.work, c)) = <<>>
             THEN Pipe(Frame(p), p.agent, p.steps, "KeyError", <<>>)
             ELSE LET col == Column(p.work, c)
                  IN  FillCategorical(
                        Pipe(InPlace(Frame(p),
                                WithColumn(p.work, c, FillColumn(col, Mode(col)[1]))),
                             p.agent, p.steps, "", <<>>),
                        Tail(columns))

\* lines 50-58
HandleMissingValues(p) ==
    IF p.error # "" \/ "handle_missing_values" \notin preprocessing_steps THEN p
    ELSE FillCategorical(
            FillNumeric(Pipe(Frame(p), p.agent, Append(p.steps, "imputation"), "", <<>>),
                        numeric_columns),
            categorical_columns)

\* the dates pd.to_datetime parses
ParsesAsDate(c) == c.k \in {"ts", "nat", "nan"} \/ (c.k = "str" /\ c.s \in {"2020-01-31", "2023-12-31"})

ParsedDate(c) ==
    IF c.k = "ts" THEN c
    ELSE IF c.k = "str" THEN (IF c.s = "2020-01-31" THEN Ts(1) ELSE Ts(2))
    ELSE NaT

\* pd.to_datetime(df[col]) inside try/except: a column that does not parse
\* is left as it is (line 67 logs a warning)
to_datetime(col) ==
    IF \A i \in 1..Len(col.vals) : ParsesAsDate(col.vals[i])
    THEN Col(col.name, DATETIME, [i \in 1..Len(col.vals) |-> ParsedDate(col.vals[i])])
    ELSE col

RECURSIVE ConvertColumns(_, _)
ConvertColumns(p, columns) ==
    IF columns = <<>> THEN p
    ELSE LET c == Head(columns)
         IN  IF ~HasColumn(p.work, c) THEN ConvertColumns(p, Tail(columns))
             ELSE ConvertColumns(
                    Pipe(InPlace(Frame(p),
                            WithColumn(p.work, c, to_datetime(Column(p.work, c)))),
                         p.agent, p.steps, "", <<>>),
                    Tail(columns))

\* lines 60-67
ConvertDates(p) ==
    IF p.error # "" \/ "convert_dates" \notin preprocessing_steps THEN p
    ELSE ConvertColumns(
            Pipe(Frame(p), p.agent, Append(p.steps, "date_coercion"), "", <<>>),
            date_columns)

\* self.encoders, self.scalers: sequences of fitted (or only created) objects
\* no column found among the objects held
HasFitter_never(fitters, c) == FALSE

HasFitter(fitters, c) == \E i \in 1..Len(fitters) : fitters[i].col = c

Fitter(fitters, c) == fitters[CHOOSE i \in 1..Len(fitters) : fitters[i].col = c]

LabelEncoder(c, fitted, classes) == [col |-> c, fitted |-> fitted, classes |-> classes]

IndexOf(seq, x) == CHOOSE i \in 1..Len(seq) : seq[i] = x

\* LabelEncoder.transform: the position of each value among the classes
Encoded(col, classes) ==
    Col(col.name, INTEGER,
        [i \in 1..Len(col.vals) |-> Num(IndexOf(classes, col.vals[i]) - 1)])

RECURSIVE EncodeColumns(_, _)
\* lines 71-77, for the columns given
EncodeColumns(p, columns) ==
    IF p.error # "" \/ columns = <<>> THEN p
    ELSE LET c == Head(columns)
         IN  IF ~HasColumn(p.work, c) THEN EncodeColumns(p, Tail(columns))
             ELSE LET col == Column(p.work, c)
                      enc == p.agent.encoders
                  IN  IF ~HasFitter(enc, c)
                      THEN \* line 74 stores the encoder before line 75 fits it
                           IF HasNull(col) /\ HasString(col)
                           THEN Pipe(Frame(p),
                                     [p.agent EXCEPT !.encoders =
                                        Append(enc, LabelEncoder(c, FALSE, <<>>))],
                                     p.steps, "TypeError", <<>>)
                           ELSE LET classes == SortCells(Range(col.vals))
                                IN  EncodeColumns(
                                        Pipe(InPlace(Frame(p),
                                                WithColumn(p.work, c, Encoded(col, classes))),
                                             [p.agent EXCEPT !.encoders =
                                                Append(enc, LabelEncoder(c, TRUE, classes))],
                                             p.steps, "", <<>>),
                                        Tail(columns))
                      ELSE IF ~Fitter(enc, c).fitted
                      THEN Pipe(Frame(p), p.agent, p.steps, "NotFittedError", <<>>)
                      ELSE IF Range(col.vals) \ Range(Fitter(enc, c).classes) # {}
                      THEN Pipe(Frame(p), p.agent, p.steps, "ValueError", <<>>)
                      ELSE EncodeColumns(
                                Pipe(InPlace(Frame(p),
                                        WithColumn(p.work, c,
                                            Encoded(col, Fitter(enc, c).classes))),
                                     p.agent, p.steps, "", <<>>),
                                Tail(columns))

\* lines 69-77
EncodeCategorical(p) ==
    IF p.error # "" \/ "encode_categorical" \notin preprocessing_steps THEN p
    ELSE EncodeColumns(
            Pipe(Frame(p), p.agent, Append(p.steps, "categorical_encoding"), "", <<>>),
            categorical_columns)

\* a StandardScaler: nan when it was fitted on no value at all
StandardScaler(c, fitted, nan, mean, var) ==
    [col |-> c, fitted |-> fitted, nan |-> nan, mean |-> mean, var |-> var]

RECURSIVE SumSquares(_, _, _)
SumSquares(col, rows, mean) ==
    IF rows = {} THEN Num(0)
    ELSE LET i == CHOOSE x \in rows : TRUE
             diff == RatSub(col.vals[i], mean)
         IN  RatAdd(RatMul(diff, diff), SumSquares(col, rows \ {i}, mean))

\* StandardScaler.fit: mean and population variance of the values present
Fitted(col) ==
    LET rows == NumericRows(col)
        squares == SumSquares(col, rows, Mean(col))
    IN  IF rows = {} THEN StandardScaler(col.name, TRUE, TRUE, Num(0), Num(0))
        ELSE StandardScaler(col.name, TRUE, FALSE, Mean(col),
                            Frac(squares.n, squares.d * Cardinality(rows)))

\* (x - mean) / sqrt(var), kept exact: the cell "z" with n/d = (x - mean)^2 / var
\* carrying the sign of x - mean; a variance of 0 scales by 1
Standardised(x, scaler) ==
    LET diff == RatSub(x, scaler.mean)
        square == Frac(diff.n * diff.n * scaler.var.d, diff.d * diff.d * scaler.var.n)
    IN  IF x.k # "num" \/ scaler.nan THEN NaN
        ELSE IF scaler.var.n = 0 THEN diff
        ELSE IF diff.n = 0 THEN Num(0)
        ELSE Cell("z", (IF diff.n < 0 THEN 0 - square.n ELSE square.n), square.d, "")

\* StandardScaler.transform
Scaled(col, scaler) ==
    Col(col.name, FLOAT, [i \in 1..Len(col.vals) |-> Standardised(col.vals[i], scaler)])

\* check_array: no row, or a value that is no number
ScalerRejects(col) == Len(col.vals) = 0 \/ HasString(col)

RECURSIVE ScaleColumns(_, _)
\* lines 81-87, for the columns given
ScaleColumns(p, columns) ==
    IF p.error # "" \/ columns = <<>> THEN p
    ELSE LET c == Head(columns)
         IN  IF ~HasColumn(p.work, c) THEN ScaleColumns(p, Tail(columns))
             ELSE LET col == Column(p.work, c)
                      sc == p.agent.scalers
                  IN  IF ~HasFitter(sc, c)
                      THEN \* line 84 stores the scaler before line 85 fits it
                           IF ScalerRejects(col)
                           THEN Pipe(Frame(p),
                                     [p.agent EXCEPT !.scalers =
                                        Append(sc, StandardScaler(c, FALSE, FALSE, Num(0), Num(0)))],
                                     p.steps, "ValueError", <<>>)
                           ELSE ScaleColumns(
                                    Pipe(InPlace(Frame(p),
                                            WithColumn(p.work, c, Scaled(col, Fitted(col)))),
                                         [p.agent EXCEPT !.scalers = Append(sc, Fitted(col))],
                                         p.steps, "", <<>>),
                                    Tail(columns))
                      ELSE IF ~Fitter(sc, c).fitted
                      THEN Pipe(Frame(p), p.agent, p.steps, "NotFittedError", <<>>)
                      ELSE IF ScalerRejects(col)
                      THEN Pipe(Frame(p), p.agent, p.steps, "ValueError", <<>>)
                      ELSE ScaleColumns(
                                Pipe(InPlace(Frame(p),
                                        WithColumn(p.work, c, Scaled(col, Fitter(sc, c)))),
                                     p.agent, p.steps, "", <<>>),
                                Tail(columns))

\* lines 79-87
ScaleNumeric(p) ==
    IF p.error # "" \/ "scale_numeric" \notin preprocessing_steps THEN p
    ELSE ScaleColumns(
            Pipe(Frame(p), p.agent, Append(p.steps, "scaling"), "", <<>>),
            numeric_columns)

\* BaseAgent.preprocess_data (the except clause logs and raises again)
BaseAgent_preprocess_data(t, ag) ==
    Finish(ScaleNumeric(EncodeCategorical(ConvertDates(HandleMissingValues(
        Copy(Begin(t, ag)))))))

----------------------------------------------------------------------------
(* The tables the calls are made on *)

\* the sequences of length n over the values vals[1..], non-decreasing in
\* the index of the value (one representative of every multiset)
NonDecSeqs(vals, n) ==
    {[i \in 1..n |-> vals[f[i]]] :
        f \in {g \in [1..n -> 1..Len(vals)] :
                    \A i \in 1..n : i < n => g[i] <= g[i + 1]}}

Repeat(c, n) == [i \in 1..n |-> c]

Absent(name) == Col(name, "absent", <<>>)

\* the table made of the columns that are present, in the order given
RECURSIVE BuildTable(_)
BuildTable(cols) ==
    IF cols = <<>> THEN <<>>
    ELSE IF Head(cols).dtype = "absent" THEN BuildTable(Tail(cols))
         ELSE <<Head(cols)>> \o BuildTable(Tail(cols))

SchemaNames == {HR_SCHEMA.columns[i].name : i \in 1..Len(HR_SCHEMA.columns)}

\* a column that conforms to HR_SCHEMA
Conforming(name, n) ==
    CASE name = "EmployeeNumber" -> Col(name, INTEGER, Repeat(Num(1), n))
      [] name = "Age" -> Col(name, INTEGER, Repeat(Num(18), n))
      [] name = "Department" -> Col(name, STRING_, Repeat(Str("HR"), n))
      [] name = "Attrition" -> Col(name, STRING_, Repeat(Str("No"), n))
      [] name = "HireDate" -> Col(name, DATETIME, Repeat(Ts(1), n))
      [] name = "TerminationDate" -> Col(name, DATETIME, Repeat(Ts(2), n))

\* the columns validation is tried on: absent, of the declared type with
\* values on and beyond the bounds and domains, and of another type
ValidationColumns(name, n) ==
    {Absent(name)} \cup
    CASE name = "EmployeeNumber" ->
            {Col(name, INTEGER, v) : v \in NonDecSeqs(<<Num(1), Num(0)>>, n)}
            \cup {Col(name, STRING_, Repeat(Str("x"), n))}
      [] name = "Age" ->
            {Col(name, INTEGER, v) :
                v \in NonDecSeqs(<<Num(18), Num(17), Num(100), Num(101)>>, n)}
            \cup {Col(name, FLOAT, v) : v \in NonDecSeqs(<<Num(17), NaN>>, n)}
            \cup {Col(name, STRING_, Repeat(Str("x"), n))}
      [] name = "Department" ->
            {Col(name, STRING_, v) :
                v \in NonDecSeqs(<<Str("HR"), Str("Invalid"), NaN>>, n)}
            \cup {Col(name, INTEGER, Repeat(Num(1), n))}
      [] name = "Attrition" ->
            {Col(name, STRING_, v) : v \in NonDecSeqs(<<Str("No"), Str("Yes")>>, n)}
      [] name = "HireDate" ->
            {Col(name, DATETIME, v) : v \in NonDecSeqs(<<Ts(1), NaT>>, n)}
            \cup {Col(name, STRING_, Repeat(Str("2020-01-31"), n))}
      [] name = "TerminationDate" ->
            {Col(name, DATETIME, v) : v \in NonDecSeqs(<<Ts(2), NaT>>, n)}
            \cup {Col(name, STRING_, Repeat(Str("2023-12-31"), n))}

\* the tables of n rows whose columns in S deviate and whose other columns
\* conform
ValidationTablesOn(S, n) ==
    LET Pick(name) == IF name \in S
                      THEN ValidationColumns(name, n) \ {Conforming(name, n)}
                      ELSE {Conforming(name, n)}
    IN  {BuildTable(<<a, b, c, d, e, f>>) :
            a \in Pick("EmployeeNumber"), b \in Pick("Age"), c \in Pick("Department"),
            d \in Pick("Attrition"), e \in Pick("HireDate"), f \in Pick("TerminationDate")}

\* the conforming tables and the tables in which one column or two deviate
DeviationSets == {{}} \cup {{a, b} : a \in SchemaNames, b \in SchemaNames}

ValidationTables ==
    UNION {ValidationTablesOn(S, n) : S \in DeviationSets, n \in 0..MaxRowsV}

----------------------------------------------------------------------------
(* State *)

\* the outcome of the last call: "ok" or the exception raised, the lines of
\* the exception's message, the table returned, and the steps run in order
\* (for a constructor: the arguments it was given)
Result(op, outcome, errors, out, steps) ==
    [op |-> op, outcome |-> outcome, errors |-> errors, out |-> out, steps |-> steps,
     fresh |-> FALSE]

\* the outcome of a call that returns a table: fresh when the table returned
\* is another object than the one the caller passed
TableResult(op, r) ==
    [op |-> op, outcome |-> r.outcome, errors |-> r.errors, out |-> r.out,
     steps |-> r.steps, fresh |-> r.fresh]

Idle == Result("", "", <<>>, <<>>, <<>>)

\* Python's None
None == [kind |-> "None"]

\* a file of the model directory: not there, there but not loadable, or the
\* object that was dumped to it
NoFile == [kind |-> "absent"]

Corrupt == [kind |-> "corrupt"]

\* the model directory: attrition_model.joblib, attrition_scaler.joblib,
\* attrition_features.joblib
Files(model, scaler, features) == [model |-> model, scaler |-> scaler, features |-> features]

NoFiles == Files(NoFile, NoFile, NoFile)

\* config/config.py: config = Config.from_env(), whose model.model_dir is
\* PathConfig.model_dir
DefaultConfig == [model_dir |-> "models"]

\* the training run each file of the configured directory was written by, and
\* the number of runs so far; recorded by the calls of the specification of
\* the saves only
Untracked == [model |-> 0, scaler |-> 0, features |-> 0, runs |-> 0]

\* FastAPI(): no route registered
NoRoutes == <<>>

\* BaseAgent.__init__ and AttritionAgent.__init__: no encoder and no scaler
\* fitted, model, scaler and feature_columns None
NewAgent ==
    [encoders |-> <<>>, scalers |-> <<>>,
     model |-> None, scaler |-> None, feature_columns |-> None]

\* the object the last constructor call returned, with the arguments given
Built(class, type, hasAllowed, allowed, columns, primary_key) ==
    [class |-> class, type |-> type, hasAllowed |-> hasAllowed,
     allowed_values |-> allowed, columns |-> columns,
     primary_key |-> primary_key]

Nothing == Built("", "", FALSE, <<>>, <<>>, "")

InitValidate ==
    /\ df \in ValidationTables
    /\ df0 = df
    /\ last = Idle
    /\ agent = NewAgent
    /\ built = Nothing
    /\ disk = NoFiles
    /\ config = DefaultConfig
    /\ elsewhere = NoFiles
    /\ origin = Untracked
    /\ app = NoRoutes

\* HR_SCHEMA.validate_dataframe(df)
CallValidateDataframe ==
    \E r \in {DataSchema_validate_dataframe(HR_SCHEMA, df)} :
        /\ last' = Result("validate_dataframe", r.outcome, r.errors, <<>>, <<>>)
        /\ df0' = df
        /\ df' = df
        /\ UNCHANGED <<agent, built, disk, config, elsewhere, origin, app>>

\* data_loader._validate_data(df)
CallValidateData ==
    \E r \in {DataLoader_validate_data(df)} :
        /\ last' = Result("_validate_data", r.outcome, r.errors, <<>>, <<>>)
        /\ df0' = df
        /\ df' = r.caller
        /\ UNCHANGED <<agent, built, disk, config, elsewhere, origin, app>>

NextValidate == CallValidateDataframe \/ CallValidateData

SpecValidate == InitValidate /\ [][NextValidate]_vars

----------------------------------------------------------------------------
(* Validation: what the checks of section 4.1 find on a table, stated      *)
(* from the contract, independently of validate_dataframe                   *)

Defn(name) ==
    HR_SCHEMA.columns[CHOOSE i \in 1..Len(HR_SCHEMA.columns) :
                            HR_SCHEMA.columns[i].name = name]

ColIndex(name) ==
    CHOOSE i \in 1..Len(HR_SCHEMA.columns) : HR_SCHEMA.columns[i].name = name

NumericCells(col) == {c \in Range(col.vals) : c.k = "num"}

BelowMin(defn, col) ==
    /\ defn.type \in {INTEGER, FLOAT}
    /\ defn.hasMin
    /\ \E c \in NumericCells(col) : RatLess(c, Num(defn.min_value))

AboveMax(defn, col) ==
    /\ defn.type \in {INTEGER, FLOAT}
    /\ defn.hasMax
    /\ \E c \in NumericCells(col) : RatLess(Num(defn.max_value), c)

OutOfDomain(defn, col) ==
    /\ defn.hasAllowed
    /\ \E c \in Range(col.vals) : c \notin Range(defn.allowed_values)

Violation(kind, col) == [kind |-> kind, col |-> col]

Violations(t) ==
    {Violation("presence", c) : c \in {x \in SchemaNames :
        Defn(x).required /\ ~HasColumn(t, x)}}
    \cup {Violation("type", c) : c \in {x \in SchemaNames :
        HasColumn(t, x) /\ Column(t, x).dtype # Defn(x).type}}
    \cup {Violation("domain", c) : c \in {x \in SchemaNames :
        HasColumn(t, x) /\ OutOfDomain(Defn(x), Column(t, x))}}
    \cup {Violation("min", c) : c \in {x \in SchemaNames :
        HasColumn(t, x) /\ BelowMin(Defn(x), Column(t, x))}}
    \cup {Violation("max", c) : c \in {x \in SchemaNames :
        HasColumn(t, x) /\ AboveMax(Defn(x), Column(t, x))}}

\* the message line reports the violation
Reports(line, v) == line.kind = v.kind /\ v.col \in NamedIn(line)

Validated == last.op = "validate_dataframe"

LinesOfKind(kind) == {i \in 1..Len(last.errors) : last.errors[i].kind = kind}

\* C1 (as claimed): validate_dataframe returns success exactly when no check
\* fails, and otherwise the message of the error it raises has an entry for
\* every violation on every column: every missing required column, every
\* type mismatch, every out-of-domain column, every violated bound.
C1_CompleteReport ==
    Validated =>
        /\ (last.outcome = "ok") <=> (Violations(df0) = {})
        /\ \A v \in Violations(df0) :
                \E i \in 1..Len(last.errors) : Reports(last.errors[i], v)

\* C2 (as claimed): whenever a bounded numeric column has a row below
\* min_value or above max_value, validate_dataframe fails and the message of
\* the error names the column; a table that conforms otherwise and whose
\* values lie inside the bounds, the bounds included, passes.
C2_BoundsEnforced ==
    Validated =>
        /\ \A v \in Violations(df0) :
                v.kind \in {"min", "max"} =>
                    /\ last.outcome # "ok"
                    /\ \E i \in 1..Len(last.errors) : v.col \in NamedIn(last.errors[i])
        /\ Violations(df0) = {} => last.outcome = "ok"

\* C3 (as claimed, of the aggregated error): when k >= 1 required columns
\* are absent, the error has exactly k presence entries, one per missing
\* column.
C3_OneEntryPerMissingColumn ==
    (Validated /\ last.outcome = "ValueError") =>
        Cardinality(LinesOfKind("presence")) = Len(MissingRequired(HR_SCHEMA, df0))

\* C3 (amended): when k >= 1 required columns are absent, validate_dataframe
\* raises; the aggregated ValueError has exactly one presence entry, its first
\* line, which lists the names of all k missing columns in registry order;
\* the TypeError of a failed range comparison has no presence entry.
C3_OneEntryListsAllMissing ==
    (Validated /\ Violations(df0) # {} /\ \E v \in Violations(df0) : v.kind = "presence") =>
        \/ /\ last.outcome = "ValueError"
           /\ LinesOfKind("presence") = {1}
           /\ Range(last.errors[1].cols) =
                {v.col : v \in {w \in Violations(df0) : w.kind = "presence"}}
           /\ \A i, j \in 1..Len(last.errors[1].cols) :
                i < j => ColIndex(last.errors[1].cols[i]) < ColIndex(last.errors[1].cols[j])
        \/ /\ last.outcome = "TypeError"
           /\ LinesOfKind("presence") = {}

C3_Witness ==
    /\ Validated
    /\ last.outcome = "ValueError"
    /\ Cardinality({v \in Violations(df0) : v.kind = "presence"}) >= 2

\* the check (1 presence, 2 type, 3 domain, 4 range) a line belongs to
CheckNumber(line) ==
    CASE line.kind = "presence" -> 1
      [] line.kind = "type" -> 2
      [] line.kind = "domain" -> 3
      [] line.kind \in {"min", "max"} -> 4
      [] OTHER -> 0

\* the place of a line within its column's lines
LineRank(line) ==
    CASE line.kind = "type" -> 1
      [] line.kind = "domain" -> 2
      [] line.kind = "min" -> 3
      [] line.kind = "max" -> 4
      [] OTHER -> 0

LineColumn(line) == IF line.kind = "presence" THEN 0 ELSE ColIndex(line.col)

\* C4 (as claimed): the messages appear in the order of the checks 1-4; no
\* message of a later check precedes a message of an earlier check.
C4_CheckOrder ==
    (Validated /\ last.outcome = "ValueError") =>
        \A i, j \in 1..Len(last.errors) :
            i < j => CheckNumber(last.errors[i]) <= CheckNumber(last.errors[j])

\* C4 (amended): the presence message comes first; the other messages follow
\* column by column in registry order, and within one column in the order
\* type, domain, lower bound, upper bound.
C4_ColumnMajorOrder ==
    (Validated /\ last.outcome = "ValueError") =>
        \A i, j \in 1..Len(last.errors) :
            i < j =>
                \/ LineColumn(last.errors[i]) < LineColumn(last.errors[j])
                \/ /\ LineColumn(last.errors[i]) = LineColumn(last.errors[j])
                   /\ LineRank(last.errors[i]) < LineRank(last.errors[j])

C4_Witness ==
    /\ Validated
    /\ last.outcome = "ValueError"
    /\ \E i \in LinesOfKind("min") \cup LinesOfKind("max") :
            \E j \in LinesOfKind("type") : i < j

\* C5: validation is read-only: after validate_dataframe or _validate_data
\* returns or raises, the caller's table has the columns, dtypes and cell
\* values it had before the call.
C5_ValidationReadOnly ==
    last.op \in {"validate_dataframe", "_validate_data"} => df = df0

\* _validate_data has run its in-place fill of TerminationDate
C5_Witness ==
    /\ last.op = "_validate_data"
    /\ last.outcome = "ok"
    /\ "TerminationDate" \in Range(HighMissingCols(df0))

----------------------------------------------------------------------------
(* Construction of ColumnDefinition and DataSchema (pydantic models)        *)

\* a Python literal of an allowed_values list: py is its Python type
Lit(py, text) == [py |-> py, text |-> text]

Literals == {Lit("int", "1"), Lit("int", "2"), Lit("float", "1.5"), Lit("str", "a")}

\* the value a member of List[Union[str, int, float]] is validated to:
\* pydantic 1 tries str first, which accepts and converts numbers;
\* pydantic 2 keeps a value that is exactly of one of the member types
CoerceUnion(x, pydantic) == IF pydantic = 1 THEN Lit("str", x.text) ELSE x

\* isinstance(x, int)
IsInstanceInt(x) == x.py = "int"

\* a validator that rejects only a list without any integer
validate_allowed_values_any(hasV, v, hasType, type) ==
    hasV /\ hasType /\ type = INTEGER
    /\ ~(\E i \in 1..Len(v) : IsInstanceInt(v[i]))

\* ColumnDefinition.validate_allowed_values: TRUE when it raises ValueError
\* (hasType = FALSE: values.get('type') is None, the type failed validation)
validate_allowed_values(hasV, v, hasType, type) ==
    hasV /\ hasType /\ type = INTEGER
    /\ ~(\A i \in 1..Len(v) : IsInstanceInt(v[i]))

\* ColumnDefinition(name=..., type=type, allowed_values=allowed): the fields
\* are validated in declaration order, type before allowed_values
ColumnDefinition_init(type, hasAllowed, allowed, pydantic) ==
    LET typeOk == type \in ColumnType
        v == [i \in 1..Len(allowed) |-> CoerceUnion(allowed[i], pydantic)]
    IN  IF ~typeOk \/ validate_allowed_values(hasAllowed, v, typeOk, type)
        THEN [outcome |-> "ValidationError", obj |-> Nothing]
        ELSE [outcome |-> "ok",
              obj |-> Built("ColumnDefinition", type, hasAllowed, v, <<>>, "")]

\* DataSchema(columns=..., primary_key=...): no validator is declared
DataSchema_init(columns, primary_key) ==
    [outcome |-> "ok",
     obj |-> Built("DataSchema", "", FALSE, <<>>, columns, primary_key)]

\* the default of DataSchema.primary_key
DefaultPrimaryKey == "EmployeeNumber"

RECURSIVE SeqsUpTo(_, _)
\* the sequences over S of length at most n
SeqsUpTo(S, n) ==
    IF n = 0 THEN {<<>>}
    ELSE LET shorter == SeqsUpTo(S, n - 1)
         IN  shorter \cup {Append(q, x) : q \in shorter, x \in S}

InitSchema ==
    /\ df = <<>>
    /\ df0 = <<>>
    /\ last = Idle
    /\ agent = NewAgent
    /\ built = Nothing
    /\ disk = NoFiles
    /\ config = DefaultConfig
    /\ elsewhere = NoFiles
    /\ origin = Untracked
    /\ app = NoRoutes

ConstructColumnDefinition ==
    \E type \in ColumnType \cup {"text"}, hasAllowed \in {TRUE, FALSE},
       allowed \in SeqsUpTo(Literals, MaxAllowed), pydantic \in {1, 2} :
        /\ hasAllowed \/ allowed = <<>>
        /\ LET r == ColumnDefinition_init(type, hasAllowed, allowed, pydantic)
           IN  /\ last' = Result("ColumnDefinition", r.outcome, <<>>, <<>>,
                             <<[type |-> type, hasAllowed |-> hasAllowed,
                                allowed_values |-> allowed]>>)
               /\ built' = r.obj
        /\ UNCHANGED <<df, df0, agent, disk, config, elsewhere, origin, app>>

ConstructDataSchema ==
    \E names \in SUBSET SchemaNames, primary_key \in SchemaNames \cup {DefaultPrimaryKey} :
        LET columns == SelectSeqBy([i \in 1..Len(HR_SCHEMA.columns) |->
                                        HR_SCHEMA.columns[i].name], names)
            r == DataSchema_init(columns, primary_key)
        IN  /\ last' = Result("DataSchema", r.outcome, <<>>, <<>>, <<>>)
            /\ built' = r.obj
            /\ UNCHANGED <<df, df0, agent, disk, config, elsewhere, origin, app>>

NextSchema == ConstructColumnDefinition \/ ConstructDataSchema

SpecSchema == InitSchema /\ [][NextSchema]_vars

\* C6 (as claimed): every successfully constructed DataSchema has its
\* primary_key among the keys of its columns mapping; a primary_key that
\* names no column is rejected.
C6_PrimaryKeyIsAColumn ==
    (last.op = "DataSchema" /\ last.outcome = "ok") =>
        built.primary_key \in Range(built.columns)

\* C7: every successfully constructed ColumnDefinition of type INTEGER with
\* allowed_values set holds only integers in allowed_values, and construction
\* with a non-integer member given fails with an error.
C7_IntegerAllowedValues ==
    last.op = "ColumnDefinition" =>
        /\ (last.outcome = "ok" /\ built.type = INTEGER /\ built.hasAllowed) =>
                \A i \in 1..Len(built.allowed_values) : built.allowed_values[i].py = "int"
        /\ (/\ last.steps[1].type = INTEGER
            /\ last.steps[1].hasAllowed
            /\ \E i \in 1..Len(last.steps[1].allowed_values) :
                    last.steps[1].allowed_values[i].py # "int")
                => last.outcome = "ValidationError"

\* an INTEGER column with a non-empty list of integers was constructed
C7_Witness ==
    /\ last.op = "ColumnDefinition"
    /\ last.outcome = "ok"
    /\ built.type = INTEGER
    /\ built.hasAllowed
    /\ Len(built.allowed_values) = MaxAllowed


----------------------------------------------------------------------------
(* agents/attrition_agent.py: AttritionAgent.train_model *)

\* config.model.test_size = 0.2
TestSizeNum == 1
TestSizeDen == 5

\* train_test_split: the test rows number ceil(test_size * n)
TestCount(n) == (n * TestSizeNum + TestSizeDen - 1) \div TestSizeDen

\* the test sets the shuffle of train_test_split can pick among n rows
Splits(n) == {S \in SUBSET (1..n) : Cardinality(S) = TestCount(n)}

\* line 29: df['Attrition'].map({'Yes': 1, 'No': 0})
Label(c) == IF c = Str("Yes") THEN Num(1) ELSE IF c = Str("No") THEN Num(0) ELSE NaN

AnyNull(t) == \E i \in 1..Len(t) : HasNull(t[i])

\* the fitted RandomForestClassifier: the columns it was fitted on and the
\* share of class 1 among the rows it was fitted on, which stands for the
\* share of trees voting 1
Classifier(features, yes, n) ==
    [kind |-> "model", features |-> features, yes |-> yes, n |-> n]

\* the fitted StandardScaler of the feature matrix: the columns it was fitted on
FeatureScaler(features) == [kind |-> "scaler", features |-> features]

FeatureList(features) == [kind |-> "features", names |-> features]

\* what train_model leaves: "ok" or the exception, the triple returned and
\* the model directory
Training(outcome, model, scaler, features, files) ==
    [outcome |-> outcome, model |-> model, scaler |-> scaler,
     features |-> features, disk |-> files]

Failed(error, files) == Training(error, None, None, None, files)

\* the one element of a singleton: The({F(x) : x \in {e}}) is F(e) with e
\* evaluated once
The(S) == CHOOSE x \in S : TRUE

\* lines 27-72 on the preprocessed table, the rows test held out by the split
TrainOn(processed, test, files) ==
    LET X == WithoutColumns(processed, {"Attrition", "EmployeeNumber"})
        y == [r \in 1..NumRows(processed) |-> Label(Column(processed, "Attrition").vals[r])]
        n == NumRows(processed)
        train == (1..n) \ test
        features == ColumnNames(X)
        yes == Cardinality({r \in train : y[r] = Num(1)})
    IN  IF ~HasColumn(processed, "Attrition") THEN Failed("KeyError", files)
        \* line 32: the train set would be empty
        ELSE IF n - TestCount(n) <= 0 THEN Failed("ValueError", files)
        \* line 40: no feature column to scale
        ELSE IF X = <<>> THEN Failed("ValueError", files)
        \* lines 52-60: a missing feature or label is rejected
        ELSE IF AnyNull(X) \/ \E r \in 1..n : IsNull(y[r]) THEN Failed("ValueError", files)
        \* line 56: predict_proba has one column when one class was seen
        ELSE IF yes = 0 \/ yes = Cardinality(train) THEN Failed("IndexError", files)
        ELSE Training("ok",
                      Classifier(features, yes, Cardinality(train)),
                      FeatureScaler(features),
                      features,
                      \* lines 67-70
                      Files(Classifier(features, yes, Cardinality(train)),
                            FeatureScaler(features),
                            FeatureList(features)))

\* AttritionAgent.train_model(data) with the rows test held out by the split
train_model(data, test, files) ==
    The({TrainOn(processed, test, files) :
            processed \in {preprocess_data(data, NewAgent).out}})

----------------------------------------------------------------------------
(* agents/attrition_agent.py: load_model, predict_attrition, analyze *)

Loadable(file) == file.kind \notin {"absent", "corrupt"}

\* AttritionAgent.load_model: False when a file is not there; otherwise the
\* three loads in turn, each assigned as it is loaded, False at the first
\* load that raises
load_model(ag, files) ==
    IF \E f \in {files.model, files.scaler, files.features} : f.kind = "absent"
    THEN [ret |-> FALSE, agent |-> ag]
    ELSE IF ~Loadable(files.model) THEN [ret |-> FALSE, agent |-> ag]
    ELSE IF ~Loadable(files.scaler)
    THEN [ret |-> FALSE, agent |-> [ag EXCEPT !.model = files.model]]
    ELSE IF ~Loadable(files.features)
    THEN [ret |-> FALSE,
          agent |-> [ag EXCEPT !.model = files.model, !.scaler = files.scaler]]
    ELSE [ret |-> TRUE,
          agent |-> [ag EXCEPT !.model = files.model, !.scaler = files.scaler,
                               !.feature_columns = files.features.names]]

\* lines 174-176: a listed feature the table lacks is added as a column of 0
RECURSIVE ZeroFill(_, _)
ZeroFill(t, feature_columns) ==
    IF feature_columns = <<>> THEN t
    ELSE IF HasColumn(t, Head(feature_columns))
         THEN ZeroFill(t, Tail(feature_columns))
         ELSE ZeroFill(Append(t, Col(Head(feature_columns), INTEGER,
                                     Repeat(Num(0), NumRows(t)))),
                       Tail(feature_columns))

\* the matrix with every column of the table, listed or not
FeatureMatrix_all_columns(t, feature_columns) ==
    WithoutColumns(ZeroFill(t, feature_columns), {"Attrition", "EmployeeNumber"})

\* lines 174-179: df_processed[feature_columns] after the fill
FeatureMatrix(t, feature_columns) ==
    [j \in 1..Len(feature_columns) |-> Column(ZeroFill(t, feature_columns), feature_columns[j])]

\* what predict_attrition leaves: "ok" or the exception, the table returned,
\* the matrix given to the scaler, the model directory, the steps run and
\* whether the exception came out of train_model
Prediction(outcome, out, X, files, steps, train_failed) ==
    [outcome |-> outcome, out |-> out, X |-> X, disk |-> files, steps |-> steps,
     train_failed |-> train_failed]

\* the odds of class 1 instead of its probability
Risk_odds(model) == Frac(model.yes, model.n - model.yes)

\* the risk of one row: predict_proba(X_scaled)[:, 1]
Risk(model) == Frac(model.yes, model.n)

\* lines 181-193 on the matrix X of a table of n rows
PredictOn(data, X, n, model, scaler, files, steps) ==
    \* line 182: the scaler rejects a matrix of no row or of other columns
    IF n = 0 \/ X = <<>> \/ ColumnNames(X) # scaler.features
    THEN Prediction("ValueError", <<>>, X, files, Append(steps, "scale"), FALSE)
    \* line 185: the classifier rejects a missing value and other columns
    ELSE IF AnyNull(X) \/ ColumnNames(X) # model.features
    THEN Prediction("ValueError", <<>>, X, files, Append(steps, "predict_proba"), FALSE)
    \* line 189
    ELSE IF ~HasColumn(data, "EmployeeNumber")
    THEN Prediction("KeyError", <<>>, X, files, Append(steps, "results"), FALSE)
    ELSE Prediction("ok",
                    <<Column(data, "EmployeeNumber"),
                      Col("attrition_risk", FLOAT, Repeat(Risk(model), n))>>,
                    X, files, Append(steps, "results"), FALSE)

\* lines 170-193 with the triple at hand
Predict(data, model, scaler, feature_columns, files, steps) ==
    The({PredictOn(data, FeatureMatrix(processed, feature_columns), NumRows(processed),
                   model, scaler, files, steps) :
            processed \in {preprocess_data(data, NewAgent).out}})

\* the failed load raised to the caller instead of the training
predict_attrition_no_retrain(data, test, files) ==
    IF Loadable(files.model) /\ Loadable(files.scaler) /\ Loadable(files.features)
    THEN Predict(data, files.model, files.scaler, files.features.names, files, <<"load">>)
    ELSE Prediction("FileNotFoundError", <<>>, <<>>, files, <<"load">>, FALSE)

\* predict_attrition(df): the triple is loaded from the model directory; when
\* a load raises, a new agent trains on df and the feature list is dumped again
predict_attrition(data, test, files) ==
    IF Loadable(files.model) /\ Loadable(files.scaler) /\ Loadable(files.features)
    THEN Predict(data, files.model, files.scaler, files.features.names, files, <<"load">>)
    ELSE The({IF t.outcome # "ok"
              THEN Prediction(t.outcome, <<>>, <<>>, t.disk, <<"load", "train_model">>, TRUE)
              ELSE Predict(data, t.model, t.scaler, t.features,
                           [t.disk EXCEPT !.features = FeatureList(t.features)],
                           <<"load", "train_model">>) :
                t \in {train_model(data, test, files)}})

\* BaseAgent.validate_input: False on an empty table and on any exception of
\* the schema validation
validate_input(data) ==
    /\ data # <<>>
    /\ NumRows(data) > 0
    /\ validate_dataframe(data).outcome = "ok"

\* AttritionAgent.analyze(df). hasattr(self, 'model') holds from __init__ on,
\* so line 106 never runs; get_feature_importance reads
\* self.model.feature_importances_
analyze(data, test, ag, files) ==
    IF ~validate_input(data)
    THEN [outcome |-> "ValueError", agent |-> ag, disk |-> files,
          steps |-> <<"validate_input">>, out |-> <<>>, train_failed |-> FALSE]
    ELSE The({IF r.outcome # "ok"
              THEN [outcome |-> r.outcome, agent |-> ag, disk |-> r.disk,
                    steps |-> <<"validate_input">> \o r.steps, out |-> <<>>,
                    train_failed |-> r.train_failed]
              ELSE IF ag.model = None
              THEN [outcome |-> "AttributeError", agent |-> ag, disk |-> r.disk,
                    steps |-> <<"validate_input">> \o r.steps \o <<"get_feature_importance">>,
                    out |-> <<>>, train_failed |-> FALSE]
              ELSE [outcome |-> "ok", agent |-> ag, disk |-> r.disk,
                    steps |-> <<"validate_input">> \o r.steps \o <<"get_feature_importance">>,
                    out |-> r.out, train_failed |-> FALSE] :
                r \in {predict_attrition(data, test, files)}})

----------------------------------------------------------------------------
(* The transforms *)

\* the dtype pandas gives a column of numbers: float64 once a value is missing
NumberColumn(name, v) ==
    Col(name, IF \E i \in 1..Len(v) : IsNull(v[i]) THEN FLOAT ELSE INTEGER, v)

\* the columns the transforms are tried on: absent, with and without missing
\* entries, with values repeated and tied, and dates given as text
TransformColumns(name, n) ==
    {Absent(name), Conforming(name, n)} \cup
    CASE name = "EmployeeNumber" -> {}
      [] name = "Age" ->
            {NumberColumn(name, v) :
                v \in NonDecSeqs(<<Num(20), Num(60), NaN>>, n)}
            \cup {Col(name, STRING_, Repeat(Str("x"), n))}
      [] name = "Department" ->
            {Col(name, STRING_, v) :
                v \in NonDecSeqs(<<Str("IT"), Str("HR"), Str("Finance"), NaN>>, n)}
      [] name = "Attrition" ->
            {Col(name, STRING_, v) : v \in NonDecSeqs(<<Str("Yes"), Str("No")>>, n)}
      [] name = "HireDate" ->
            {Col(name, STRING_, Repeat(Str("2020-01-31"), n)),
             Col(name, STRING_, Repeat(Str("x"), n))}
      [] name = "TerminationDate" ->
            {Col(name, DATETIME, v) : v \in NonDecSeqs(<<Ts(2), NaT>>, n)}
            \cup {Col(name, STRING_, Repeat(Str("2023-12-31"), n))}

\* the tables of n rows in which column a deviates, column b is absent and
\* the other columns conform ("" for no column)
TransformTablesOn(a, b, n) ==
    LET Pick(name) == IF name = b THEN {Absent(name)}
                      ELSE IF name = a
                      THEN TransformColumns(name, n) \ {Conforming(name, n)}
                      ELSE {Conforming(name, n)}
    IN  {BuildTable(<<c1, c2, c3, c4, c5, c6>>) :
            c1 \in Pick("EmployeeNumber"), c2 \in Pick("Age"), c3 \in Pick("Department"),
            c4 \in Pick("Attrition"), c5 \in Pick("HireDate"), c6 \in Pick("TerminationDate")}

TransformTables ==
    UNION {TransformTablesOn(a, b, n) :
            a \in SchemaNames \cup {""}, b \in SchemaNames \cup {""}, n \in 0..MaxRowsT}

InitTransform ==
    /\ df \in TransformTables
    /\ df0 = df
    /\ last = Idle
    /\ agent = NewAgent
    /\ built = Nothing
    /\ disk = NoFiles
    /\ config = DefaultConfig
    /\ elsewhere = NoFiles
    /\ origin = Untracked
    /\ app = NoRoutes

\* data_loader._preprocess_data(df)
CallLoaderPreprocess ==
    \E r \in {DataLoader_preprocess_data(df, agent)} :
        /\ last' = TableResult("_preprocess_data", r)
        /\ df0' = df
        /\ df' = r.caller
        /\ agent' = r.agent
        /\ UNCHANGED <<built, disk, config, elsewhere, origin, app>>

\* attrition_agent.preprocess_data(df)
CallAttritionPreprocess ==
    \E r \in {preprocess_data(df, agent)} :
        /\ last' = TableResult("preprocess_data", r)
        /\ df0' = df
        /\ df' = r.caller
        /\ agent' = r.agent
        /\ UNCHANGED <<built, disk, config, elsewhere, origin, app>>

\* agent.preprocess_data(df) on a BaseAgent
CallBasePreprocess ==
    \E r \in {BaseAgent_preprocess_data(df, agent)} :
        /\ last' = TableResult("BaseAgent.preprocess_data", r)
        /\ df0' = df
        /\ df' = r.caller
        /\ agent' = r.agent
        /\ UNCHANGED <<built, disk, config, elsewhere, origin, app>>

NextTransform == CallLoaderPreprocess \/ CallAttritionPreprocess \/ CallBasePreprocess

SpecTransform == InitTransform /\ [][NextTransform]_vars


----------------------------------------------------------------------------
(* The transforms: frame, order of the steps, numeric fill *)

TransformOps == {"_preprocess_data", "preprocess_data", "BaseAgent.preprocess_data"}

Transformed == last.op \in TransformOps

Returned == Transformed /\ last.outcome = "ok"

\* C8: after a call of any of the three transforms, whether it returned or
\* raised, the table the caller passed is what it was before the call, and a
\* table that is returned is another object than the one passed.
C8_CallerTableUnchanged ==
    Transformed => /\ df = df0
                   /\ (last.outcome = "ok" => last.fresh)

\* a transform returned a table that differs from the one it was given
C8_Witness == Returned /\ last.fresh /\ last.out # df0 /\ df = df0

\* the order of steps the specification gives
SpecStepOrder == <<"imputation", "date_coercion", "categorical_expansion", "consistency_check">>

StepRank(step) ==
    IF step \in Range(SpecStepOrder) THEN IndexOf(SpecStepOrder, step) ELSE 0

IsPrefix(s, t) == Len(s) <= Len(t) /\ \A i \in 1..Len(s) : s[i] = t[i]

\* C9 as stated: the steps a transform runs come in the order imputation,
\* date coercion, categorical expansion, consistency check.
C9_SpecStepOrder ==
    Transformed =>
        \A i, j \in 1..Len(last.steps) :
            (i < j /\ StepRank(last.steps[i]) > 0 /\ StepRank(last.steps[j]) > 0)
                => StepRank(last.steps[i]) < StepRank(last.steps[j])

LoaderSteps == <<"copy", "categorical_expansion", "imputation", "consistency_check">>

AttritionSteps == <<"drop_dates", "categorical_expansion", "imputation">>

BaseAgentSteps == <<"copy", "imputation", "date_coercion", "categorical_encoding", "scaling">>

StepsOf(op) ==
    CASE op = "_preprocess_data" -> LoaderSteps
      [] op = "preprocess_data" -> AttritionSteps
      [] op = "BaseAgent.preprocess_data" -> BaseAgentSteps

\* C9 as amended: each transform runs its own steps in a fixed order, up to
\* the step that raises: the loader copies, expands, fills, then checks the
\* required columns last; the attrition transform drops the dates, expands,
\* then fills; the agent copies, fills, coerces the dates, encodes, scales.
C9_OwnStepOrder ==
    Transformed => /\ IsPrefix(last.steps, StepsOf(last.op))
                   /\ (last.outcome = "ok" => last.steps = StepsOf(last.op))
                   /\ (last.outcome # "ok" => last.steps # <<>>)

\* the loader ran to its end on a table with a missing number
C9_Witness ==
    /\ last.op = "_preprocess_data" /\ last.outcome = "ok"
    /\ last.steps = LoaderSteps
    /\ HasColumn(df0, "Age") /\ HasNull(Column(df0, "Age"))

\* the columns of numbers of the table given that the table returned still has
NumericColumnsKept ==
    {i \in 1..Len(df0) : IsNumericDtype(df0[i].dtype) /\ HasColumn(last.out, df0[i].name)}

OutCell(i, r) == Column(last.out, df0[i].name).vals[r]

----------------------------------------------------------------------------
(* The transforms: fill of the text columns *)

\* the columns of the table given that the schema declares as text
TextColumns == {i \in 1..Len(df0) : Defn(df0[i].name).type = STRING_}

MostFrequent(col) ==
    {c \in NonNull(col) : \A o \in NonNull(col) : Count(col, o) <= Count(col, c)}

\* the rows that hold the most frequent value that comes first in row order
FirstEncounteredModeRows(col) ==
    {m \in 1..Len(col.vals) :
        /\ col.vals[m] \in MostFrequent(col)
        /\ \A o \in MostFrequent(col) :
                IndexOf(col.vals, col.vals[m]) <= IndexOf(col.vals, o)}

\* the rows that hold the most frequent value that is least in sorted order
SortedModeRows(col) ==
    {m \in 1..Len(col.vals) :
        /\ col.vals[m] \in MostFrequent(col)
        /\ \A o \in MostFrequent(col) : ~CellLess(o, col.vals[m])}

\* C11 as stated: in the table the loader or the agent returns, every missing
\* entry of a text column holds a value, the one the transform gives the most
\* frequent value of the column, the first in row order among equally
\* frequent ones.
C11_ModeFirstEncountered ==
    (Returned /\ last.op # "preprocess_data") =>
        \A i \in TextColumns : \A r \in 1..Len(df0[i].vals) :
            IsNull(df0[i].vals[r]) =>
                /\ HasColumn(last.out, df0[i].name)
                /\ ~IsNull(OutCell(i, r))
                /\ \A m \in FirstEncounteredModeRows(df0[i]) : OutCell(i, r) = OutCell(i, m)

\* C11 as amended: the agent gives every missing entry of a text column the
\* value it gives the most frequent value of the column, the least in sorted
\* order among equally frequent ones, and gives different values different
\* codes; it raises KeyError on a text column that has no value at all; the
\* loader returns the text columns as they were, missing entries included.
C11_ModeSortedFirst ==
    /\ (Returned /\ last.op = "BaseAgent.preprocess_data") =>
            \A i \in TextColumns :
                /\ HasColumn(last.out, df0[i].name)
                /\ HasNull(df0[i]) => SortedModeRows(df0[i]) # {}
                /\ \A r \in 1..Len(df0[i].vals) :
                        /\ ~IsNull(OutCell(i, r))
                        /\ IsNull(df0[i].vals[r]) =>
                                \A m \in SortedModeRows(df0[i]) : OutCell(i, r) = OutCell(i, m)
                        /\ \A m \in 1..Len(df0[i].vals) :
                                (~IsNull(df0[i].vals[r]) /\ ~IsNull(df0[i].vals[m]))
                                    => ((OutCell(i, r) = OutCell(i, m))
                                            <=> (df0[i].vals[r] = df0[i].vals[m]))
    /\ (Transformed /\ last.op = "BaseAgent.preprocess_data"
            /\ \E i \in TextColumns : HasNull(df0[i]) /\ NonNull(df0[i]) = {})
            => last.outcome = "KeyError"
    /\ (Returned /\ last.op = "_preprocess_data") =>
            \A i \in TextColumns :
                HasColumn(last.out, df0[i].name) /\ Column(last.out, df0[i].name) = df0[i]

\* the agent filled a missing department where two departments are equally
\* frequent and the first in row order is not the least in sorted order
C11_Witness ==
    /\ last.op = "BaseAgent.preprocess_data" /\ last.outcome = "ok"
    /\ HasColumn(df0, "Department") /\ HasNull(Column(df0, "Department"))
    /\ SortedModeRows(Column(df0, "Department")) # {}
    /\ SortedModeRows(Column(df0, "Department"))
            # FirstEncounteredModeRows(Column(df0, "Department"))


----------------------------------------------------------------------------
(* The attrition transform: indicator columns *)

\* the text columns the attrition transform expands: not the primary key, not
\* the label
ExpandedColumns ==
    {i \in TextColumns : df0[i].name \notin {HR_SCHEMA.primary_key, "Attrition"}}

IndicatorName(name, text) == name \o "_" \o text

\* C12: in the table the attrition transform returns, a text column that is
\* neither the primary key nor the label is gone, and with V the values seen
\* in it there is an indicator column name_v exactly for the values v of V
\* other than the least of V in sorted order; the indicator of v holds 1 in
\* the rows that held v and 0 in the others.
C12_DropFirstIndicators ==
    (Returned /\ last.op = "preprocess_data") =>
        \A i \in ExpandedColumns :
            /\ ~HasColumn(last.out, df0[i].name)
            /\ \A j \in 1..Len(SortedStrings) :
                    HasColumn(last.out, IndicatorName(df0[i].name, SortedStrings[j]))
                        <=> /\ Str(SortedStrings[j]) \in NonNull(df0[i])
                            /\ \E o \in NonNull(df0[i]) : CellLess(o, Str(SortedStrings[j]))
            /\ \A v \in NonNull(df0[i]) :
                    HasColumn(last.out, IndicatorName(df0[i].name, v.s)) =>
                        \A r \in 1..Len(df0[i].vals) :
                            Column(last.out, IndicatorName(df0[i].name, v.s)).vals[r]
                                = IF df0[i].vals[r] = v THEN Num(1) ELSE Num(0)

\* departments IT, HR and Finance were seen: Department_HR and Department_IT
\* are returned, Department_Finance and Department are not
C12_Witness ==
    /\ last.op = "preprocess_data" /\ last.outcome = "ok"
    /\ HasColumn(df0, "Department")
    /\ NonNull(Column(df0, "Department")) = {Str("IT"), Str("HR"), Str("Finance")}
    /\ HasColumn(last.out, "Department_HR") /\ HasColumn(last.out, "Department_IT")
    /\ ~HasColumn(last.out, "Department_Finance") /\ ~HasColumn(last.out, "Department")


----------------------------------------------------------------------------
(* The transforms: missing values, rows and columns of the table returned *)

\* the entries of the numeric and text columns of a table that are missing
MissingEntries(t) ==
    {<<i, r>> \in (1..Len(t)) \X (0..MaxRowsT + 1) :
        /\ r \in 1..Len(t[i].vals)
        /\ IsNumericDtype(t[i].dtype) \/ t[i].dtype = STRING_
        /\ IsNull(t[i].vals[r])}

\* C13: the table the attrition transform returns has no missing entry in a
\* numeric or text column, and neither has the table the transform returns
\* when it is given that table.
C13_NoMissingAfterTransform ==
    (Returned /\ last.op = "preprocess_data") =>
        /\ MissingEntries(last.out) = {}
        /\ preprocess_data(last.out, agent).outcome = "ok"
        /\ MissingEntries(preprocess_data(last.out, agent).out) = {}

DateColumns == {"HireDate", "TerminationDate"}

RowsKept == \A j \in 1..Len(last.out) : Len(last.out[j].vals) = NumRows(df0)

\* C14 as stated: the table the loader or the attrition transform returns has
\* the rows of the table given, and every column of the table given other
\* than the text columns replaced by indicator columns.
C14_ColumnsOnlyAdded ==
    (Returned /\ last.op \in {"_preprocess_data", "preprocess_data"}) =>
        /\ RowsKept
        /\ \A i \in 1..Len(df0) :
                ~(last.op = "preprocess_data" /\ i \in ExpandedColumns)
                    => HasColumn(last.out, df0[i].name)

\* C14 as amended: the table returned has the rows of the table given; the
\* loader returns every column given; the attrition transform returns every
\* column given except HireDate and TerminationDate, which it drops, and the
\* columns of dtype object other than Attrition, which it expands.
C14_ColumnsKeptButDates ==
    (Returned /\ last.op \in {"_preprocess_data", "preprocess_data"}) =>
        /\ RowsKept
        /\ \A i \in 1..Len(df0) :
                HasColumn(last.out, df0[i].name)
                    <=> \/ last.op = "_preprocess_data"
                        \/ /\ df0[i].name \notin DateColumns
                           /\ df0[i].dtype # STRING_ \/ df0[i].name = "Attrition"

\* the attrition transform returned a table of several rows without the dates
\* it was given
C14_Witness ==
    /\ last.op = "preprocess_data" /\ last.outcome = "ok"
    /\ NumRows(df0) >= 2
    /\ HasColumn(df0, "HireDate") /\ ~HasColumn(last.out, "HireDate")
    /\ HasColumn(df0, "EmployeeNumber") /\ HasColumn(last.out, "EmployeeNumber")

\* C15: the loader returns a table exactly when no required column is absent
\* from the table it worked on; otherwise it raises an error whose message
\* lists the absent required columns, all of them and no other.
C15_MissingRequiredReported ==
    (Transformed /\ last.op = "_preprocess_data") =>
        IF MissingRequired(HR_SCHEMA, df0) = <<>>
        THEN last.outcome = "ok"
        ELSE /\ last.outcome # "ok"
             /\ last.out = <<>>
             /\ Len(last.errors) = 1
             /\ last.errors[1].cols = MissingRequired(HR_SCHEMA, df0)


----------------------------------------------------------------------------
(* The attrition agent *)

\* a table the persisted triple was trained on: the features it leaves are
\* Age and Department_IT
ReferenceTable ==
    <<Col("EmployeeNumber", INTEGER, <<Num(1), Num(1), Num(1)>>),
      Col("Age", INTEGER, <<Num(20), Num(60), Num(20)>>),
      Col("Department", STRING_, <<Str("Finance"), Str("IT"), Str("IT")>>),
      Col("Attrition", STRING_, <<Str("Yes"), Str("No"), Str("Yes")>>)>>

Persisted == train_model(ReferenceTable, {1}, NoFiles).disk

\* the model directory before the calls: empty, the persisted triple, and the
\* triple with one file missing or not loadable
DiskStates ==
    {NoFiles, Persisted}
    \cup {[Persisted EXCEPT ![f] = bad] :
            f \in {"model", "scaler", "features"}, bad \in {NoFile, Corrupt}}

\* the tables the agent is called on: conforming ones and ones in which one
\* column deviates
AttritionTables ==
    UNION {TransformTablesOn(a, "", n) : a \in SchemaNames \cup {""}, n \in 0..MaxRowsT}

\* the outcome of a call on the agent: with the matrix X given to the scaler,
\* the value returned by load_model, whether an exception came out of
\* train_model, and the model directories and the agent before the call
AgentCall(op, outcome, out, steps, X, ret, train_failed) ==
    [op |-> op, outcome |-> outcome, errors |-> <<>>, out |-> out, steps |-> steps,
     fresh |-> TRUE, X |-> X, ret |-> ret, train_failed |-> train_failed,
     disk0 |-> disk, agent0 |-> agent, elsewhere0 |-> elsewhere]

InitAttrition ==
    /\ df \in AttritionTables
    /\ df0 = df
    /\ last = Idle
    /\ agent = NewAgent
    /\ built = Nothing
    /\ disk \in DiskStates
    /\ config = DefaultConfig
    /\ elsewhere = NoFiles
    /\ origin = Untracked
    /\ app = NoRoutes

\* attrition_agent.load_model()
CallLoadModel ==
    \E r \in {load_model(agent, disk)} :
        /\ last' = AgentCall("load_model", "ok", <<>>, <<>>, <<>>, r.ret, FALSE)
        /\ agent' = r.agent
        /\ df0' = df
        /\ UNCHANGED <<df, built, disk, config, elsewhere, origin, app>>

\* attrition_agent.train_model(df)
CallTrainModel ==
    \E test \in Splits(NumRows(df)) :
        \E r \in {train_model(df, test, disk)} :
            /\ last' = AgentCall("train_model", r.outcome, <<>>, <<>>, <<>>,
                                 r.outcome = "ok", r.outcome # "ok")
            /\ disk' = r.disk
            /\ df0' = df
            /\ UNCHANGED <<df, agent, built, config, elsewhere, origin, app>>

\* predict_attrition(df)
CallPredictAttrition ==
    \E test \in Splits(NumRows(df)) :
        \E r \in {predict_attrition(df, test, disk)} :
            /\ last' = AgentCall("predict_attrition", r.outcome, r.out, r.steps, r.X,
                                 r.outcome = "ok", r.train_failed)
            /\ disk' = r.disk
            /\ df0' = df
            /\ UNCHANGED <<df, agent, built, config, elsewhere, origin, app>>

\* attrition_agent.analyze(df)
CallAnalyze ==
    \E test \in Splits(NumRows(df)) :
        \E r \in {analyze(df, test, agent, disk)} :
            /\ last' = AgentCall("analyze", r.outcome, r.out, r.steps, <<>>,
                                 r.outcome = "ok", r.train_failed)
            /\ agent' = r.agent
            /\ disk' = r.disk
            /\ df0' = df
            /\ UNCHANGED <<df, built, config, elsewhere, origin, app>>

NextAttrition == CallLoadModel \/ CallTrainModel \/ CallPredictAttrition \/ CallAnalyze

SpecAttrition == InitAttrition /\ [][NextAttrition]_vars


----------------------------------------------------------------------------
(* The attrition agent: training on first use, the persisted triple,
   the feature matrix, the risk scores *)

Untrained(ag) == ag.model = None /\ ag.scaler = None /\ ag.feature_columns = None

Trained(ag) == ag.model # None /\ ag.scaler # None /\ ag.feature_columns # None

Complete(files) ==
    Loadable(files.model) /\ Loadable(files.scaler) /\ Loadable(files.features)

SchemaValid(t) == validate_dataframe(t).outcome = "ok"

\* C16: analyze called with a table that passes validation, on an agent that
\* is untrained, with an empty model directory, where the training on the
\* table does not fail, returns without raising and leaves the agent trained:
\* model, scaler and feature_columns set.
C16_AnalyzeTrainsFirst ==
    (/\ last.op = "analyze"
     /\ Untrained(last.agent0) /\ last.disk0 = NoFiles
     /\ validate_input(df0)
     /\ ~last.train_failed)
        => last.outcome = "ok" /\ Trained(agent)

\* C17: load_model returns True only when model, scaler and feature list were
\* all loaded, and when it returns False the agent's model, scaler and
\* feature_columns are what they were before the call.
C17_LoadAllOrNothing ==
    last.op = "load_model" =>
        IF last.ret
        THEN /\ Complete(disk)
             /\ agent.model = disk.model /\ agent.scaler = disk.scaler
             /\ agent.feature_columns = disk.features.names
        ELSE agent = last.agent0

\* C18: predict_attrition called with a table that passes the schema, when
\* the persisted triple is missing or incomplete, trains on the table; it
\* raises only when that training raises, and otherwise returns the scores
\* and leaves a complete triple.
C18_RetrainInsteadOfRaise ==
    (last.op = "predict_attrition" /\ SchemaValid(df0) /\ ~Complete(last.disk0)) =>
        /\ "train_model" \in Range(last.steps)
        /\ last.outcome # "ok" => last.train_failed
        /\ last.outcome = "ok" =>
                /\ HasColumn(last.out, "attrition_risk")
                /\ Complete(disk)

\* scores were returned though a file of the triple could not be loaded
C18_Witness ==
    /\ last.op = "predict_attrition" /\ last.outcome = "ok"
    /\ SchemaValid(df0) /\ ~Complete(last.disk0) /\ last.disk0 # NoFiles
    /\ "train_model" \in Range(last.steps)

\* predict_attrition got as far as the matrix
MatrixBuilt ==
    /\ last.op = "predict_attrition"
    /\ last.steps # <<>>
    /\ last.steps[Len(last.steps)] \in {"scale", "predict_proba", "results"}

\* the table predict_attrition preprocessed
Processed == preprocess_data(df0, NewAgent).out

\* C19: the matrix given to the scaler has the columns of the stored feature
\* list and no other, in the order of the list; a listed column the
\* preprocessed table has is that column, and a listed column it lacks holds
\* 0 in every row.
C19_FeatureMatrixFollowsList ==
    MatrixBuilt =>
        /\ ColumnNames(last.X) = disk.features.names
        /\ \A j \in 1..Len(last.X) :
                IF HasColumn(Processed, last.X[j].name)
                THEN last.X[j] = Column(Processed, last.X[j].name)
                ELSE /\ Len(last.X[j].vals) = NumRows(df0)
                     /\ \A r \in 1..Len(last.X[j].vals) : last.X[j].vals[r] = Num(0)

\* a listed feature was absent and added, and a column of the preprocessed
\* table that is not listed was left out
C19_Witness ==
    /\ MatrixBuilt /\ last.outcome = "ok"
    /\ \E j \in 1..Len(last.X) : ~HasColumn(Processed, last.X[j].name)
    /\ \E i \in 1..Len(Processed) :
            /\ Processed[i].name \notin {"Attrition", "EmployeeNumber"}
            /\ ~HasColumn(last.X, Processed[i].name)

\* C20: the table predict_attrition returns has one row per row of the table
\* given, with that row's EmployeeNumber and an attrition_risk between 0 and
\* 1, bounds included.
C20_OneScorePerRow ==
    (last.op = "predict_attrition" /\ last.outcome = "ok") =>
        /\ ColumnNames(last.out) = <<"EmployeeNumber", "attrition_risk">>
        /\ Column(last.out, "EmployeeNumber") = Column(df0, "EmployeeNumber")
        /\ Len(Column(last.out, "attrition_risk").vals) = NumRows(df0)
        /\ \A r \in 1..NumRows(df0) :
                LET risk == Column(last.out, "attrition_risk").vals[r]
                IN  risk.k = "num" /\ 0 <= risk.n /\ risk.n <= risk.d

\* scores for several rows from a model trained on the request's table
C20_Witness ==
    /\ last.op = "predict_attrition" /\ last.outcome = "ok"
    /\ "train_model" \in Range(last.steps)
    /\ NumRows(df0) >= 3
    /\ Len(Column(last.out, "attrition_risk").vals) = NumRows(df0)

----------------------------------------------------------------------------
(* The model directory: config.model.model_dir of train_model and          *)
(* load_model, 'models/' of predict_attrition.  disk is the directory       *)
(* models/, elsewhere a configured directory that is another one            *)

\* a configuration loaded with Config.from_yaml can name any directory
ModelDirs == {"models", "artifacts"}

\* the directory self.config.model.model_dir names
Configured(cfg, models, other) == IF cfg.model_dir = "models" THEN models ELSE other

\* the two directories after files were written to the configured one
WriteConfigured(cfg, models, other, files) ==
    IF cfg.model_dir = "models"
    THEN [models |-> files, other |-> other]
    ELSE [models |-> models, other |-> files]

\* predict_attrition(df) under a configuration: the loads of lines 161-163
\* and the dump of line 168 name 'models/', the training of line 167 writes
\* to the configured directory
predict_attrition_under(cfg, data, test, models, other) ==
    IF Complete(models)
    THEN [r |-> Predict(data, models.model, models.scaler, models.features.names,
                        models, <<"load">>),
          other |-> other]
    ELSE The({IF t.outcome # "ok"
              THEN [r |-> Prediction(t.outcome, <<>>, <<>>,
                                     WriteConfigured(cfg, models, other, t.disk).models,
                                     <<"load", "train_model">>, TRUE),
                    other |-> WriteConfigured(cfg, models, other, t.disk).other]
              ELSE [r |-> Predict(data, t.model, t.scaler, t.features,
                                  [WriteConfigured(cfg, models, other, t.disk).models
                                      EXCEPT !.features = FeatureList(t.features)],
                                  <<"load", "train_model">>),
                    other |-> WriteConfigured(cfg, models, other, t.disk).other] :
                t \in {train_model(data, test, Configured(cfg, models, other))}})

InitModelDir ==
    /\ df \in AttritionTables
    /\ df0 = df
    /\ last = Idle
    /\ agent = NewAgent
    /\ built = Nothing
    /\ disk \in {NoFiles, Persisted}
    /\ config \in {[model_dir |-> d] : d \in ModelDirs}
    /\ elsewhere = NoFiles
    /\ origin = Untracked
    /\ app = NoRoutes

\* attrition_agent.train_model(df) under the configuration
TrainModelConfigured ==
    \E test \in Splits(NumRows(df)) :
        \E r \in {train_model(df, test, Configured(config, disk, elsewhere))} :
            /\ last' = AgentCall("train_model", r.outcome, <<>>, <<>>, <<>>,
                                 r.outcome = "ok", r.outcome # "ok")
            /\ disk' = WriteConfigured(config, disk, elsewhere, r.disk).models
            /\ elsewhere' = WriteConfigured(config, disk, elsewhere, r.disk).other
            /\ df0' = df
            /\ UNCHANGED <<df, agent, built, config, origin, app>>

\* attrition_agent.load_model() under the configuration
LoadModelConfigured ==
    \E r \in {load_model(agent, Configured(config, disk, elsewhere))} :
        /\ last' = AgentCall("load_model", "ok", <<>>, <<>>, <<>>, r.ret, FALSE)
        /\ agent' = r.agent
        /\ df0' = df
        /\ UNCHANGED <<df, built, disk, config, elsewhere, origin, app>>

\* predict_attrition(df) under the configuration
PredictAttritionConfigured ==
    \E test \in Splits(NumRows(df)) :
        \E p \in {predict_attrition_under(config, df, test, disk, elsewhere)} :
            /\ last' = AgentCall("predict_attrition", p.r.outcome, p.r.out, p.r.steps,
                                 p.r.X, p.r.outcome = "ok", p.r.train_failed)
            /\ disk' = p.r.disk
            /\ elsewhere' = p.other
            /\ df0' = df
            /\ UNCHANGED <<df, agent, built, config, origin, app>>

NextModelDir == TrainModelConfigured \/ LoadModelConfigured \/ PredictAttritionConfigured

SpecModelDir == InitModelDir /\ [][NextModelDir]_vars

\* the triple train_model persisted: the configured directory before the call
PersistedBefore == Configured(config, last.disk0, last.elsewhere0)

\* C21: whatever directory is configured, once train_model has persisted a
\* triple there, load_model reads that triple back, and predict_attrition
\* loads it without training again and scores with its classifier.
C21_RoundTrip ==
    (last.op \in {"load_model", "predict_attrition"} /\ Complete(PersistedBefore)) =>
        /\ last.op = "load_model" =>
                /\ last.ret
                /\ agent.model = PersistedBefore.model
                /\ agent.scaler = PersistedBefore.scaler
                /\ agent.feature_columns = PersistedBefore.features.names
        /\ last.op = "predict_attrition" =>
                /\ "train_model" \notin Range(last.steps)
                /\ last.outcome = "ok" =>
                        \A r \in 1..NumRows(df0) :
                            Column(last.out, "attrition_risk").vals[r]
                                = Risk(PersistedBefore.model)

----------------------------------------------------------------------------
(* The agent functions: agents/productivity_agent.py,                        *)
(* agents/simulation_agent.py, agents/planning_agent.py,                     *)
(* agents/diversity_agent.py, agents/skill_gap_agent.py                      *)

\* what a call of an agent function leaves: "ok" or the exception, the
\* mapping returned, and the tables passed to it as the caller sees them
\* after the call
Returns(out, tables) == [outcome |-> "ok", out |-> out, tables |-> tables]

Raises(error, tables) == [outcome |-> error, out |-> <<>>, tables |-> tables]

\* df[names] or df[name] raises KeyError
Lacks(t, names) == \E c \in names : ~HasColumn(t, c)

\* pd.to_datetime(series) raises on a cell that is no date
DatetimeRaises(col) == \E i \in 1..Len(col.vals) : ~ParsesAsDate(col.vals[i])

\* pd.to_datetime(series)
Timestamps(col) ==
    Col(col.name, DATETIME, [i \in 1..Len(col.vals) |-> ParsedDate(col.vals[i])])

\* (tl['end_time'] - tl['start_time']) in units of the model's timestamps
CycleTime(start, end) ==
    Col("cycle_time_h", FLOAT,
        [i \in 1..Len(start.vals) |->
            IF start.vals[i].k = "ts" /\ end.vals[i].k = "ts"
            THEN Num(end.vals[i].n - start.vals[i].n) ELSE NaN])

\* lines 64-65: task_logs['created_at'] and task_logs['completed_at'] are
\* assigned on the caller's table
ConvertTaskLogs(task_logs) ==
    WithColumn(WithColumn(task_logs, "created_at",
                          Timestamps(Column(task_logs, "created_at"))),
               "completed_at", Timestamps(Column(task_logs, "completed_at")))

\* analyze_productivity(time_logs, task_logs): time_logs and the completed
\* tasks are copied, the open tasks are taken from task_logs after its two
\* date columns were converted
analyze_productivity(time_logs, task_logs) ==
    \* lines 19-21
    IF Lacks(time_logs, {"start_time", "end_time"})
    THEN Raises("KeyError", <<time_logs, task_logs>>)
    ELSE IF DatetimeRaises(Column(time_logs, "start_time"))
            \/ DatetimeRaises(Column(time_logs, "end_time"))
    THEN Raises("ValueError", <<time_logs, task_logs>>)
    \* line 26
    ELSE IF Lacks(task_logs, {"task_id", "task_type"}) \/ Lacks(time_logs, {"task_id"})
    THEN Raises("KeyError", <<time_logs, task_logs>>)
    \* lines 34-35
    ELSE IF Lacks(task_logs, {"completed_at"})
    THEN Raises("KeyError", <<time_logs, task_logs>>)
    ELSE IF DatetimeRaises(Column(task_logs, "completed_at"))
    THEN Raises("ValueError", <<time_logs, task_logs>>)
    \* line 47
    ELSE IF Lacks(time_logs, {"user_id"})
    THEN Raises("KeyError", <<time_logs, task_logs>>)
    \* line 64
    ELSE IF Lacks(task_logs, {"created_at"})
    THEN Raises("KeyError", <<time_logs, task_logs>>)
    ELSE IF DatetimeRaises(Column(task_logs, "created_at"))
    THEN Raises("ValueError", <<time_logs, task_logs>>)
    ELSE Returns([average_completion_time_h |->
                      Mean(CycleTime(Timestamps(Column(time_logs, "start_time")),
                                     Timestamps(Column(time_logs, "end_time")))),
                  open_tasks |->
                      {i \in 1..NumRows(task_logs) :
                            IsNull(Column(task_logs, "completed_at").vals[i])}],
                 <<time_logs, ConvertTaskLogs(task_logs)>>)

\* a rational rounded up to the next integer
IntOf_up(q) == 0 - ((0 - q.n) \div q.d)

\* int(x) of a rational: truncation toward zero
IntOf(q) == IF q.n >= 0 THEN q.n \div q.d ELSE 0 - ((0 - q.n) \div q.d)

\* round(x, 3) and round(x, 2) of a rational, ties to the even neighbour
RoundTo(q, scale) ==
    IF q.k # "num" THEN q
    ELSE LET x == RatMul(q, Num(scale))
             f == x.n \div x.d
             twice == 2 * (x.n - f * x.d)
         IN  IF twice > x.d \/ (twice = x.d /\ f % 2 = 1)
             THEN Frac(f + 1, scale) ELSE Frac(f, scale)

\* Series.astype(int) raises on a missing value and on text
AstypeIntRaises(col) == \E i \in 1..Len(col.vals) : col.vals[i].k # "num"

\* line 46: int(len(part_attrited) * effect)
Rescued(part_attrited, effect) == IntOf(RatMul(Num(part_attrited), effect))

\* simulate_attrition_interventions(df, intervention, participation_rate)
\* with the rows sample picked by data.sample; the work is done on a copy
simulate_attrition_interventions(data, intervention, participation_rate, sample) ==
    IF Lacks(data, {"attrited"}) THEN Raises("KeyError", <<data>>)
    ELSE IF AstypeIntRaises(Column(data, "attrited")) THEN Raises("ValueError", <<data>>)
    ELSE LET attrited == Column(data, "attrited")
             total == NumRows(data)
             baseline_attritions == SumRows(attrited, 1..total).n
             n_participants == IntOf(RatMul(Num(total), participation_rate))
             effect == RatMul(intervention.effect_size_pct, Frac(1, 100))
             part_attrited == Cardinality({i \in sample : attrited.vals[i] = Num(1)})
             rescued == Rescued(part_attrited, effect)
             projected_attritions == baseline_attritions - rescued
             Rate(k) == IF total = 0 THEN NaN ELSE Frac(k, total)
             Retention(k) == IF total = 0 THEN NaN ELSE Frac(total - k, total)
         IN  \* line 35: more rows asked for than there are
             IF n_participants > total \/ n_participants < 0
             THEN Raises("ValueError", <<data>>)
             ELSE Returns(
                    [baseline_attrition_rate |-> RoundTo(Rate(baseline_attritions), 1000),
                     projected_attrition_rate |-> RoundTo(Rate(projected_attritions), 1000),
                     baseline_retention_rate |-> RoundTo(Retention(baseline_attritions), 1000),
                     projected_retention_rate |-> RoundTo(Retention(projected_attritions), 1000),
                     employees_participating |-> n_participants,
                     attritions_rescued |-> rescued,
                     intervention_cost |->
                        RoundTo(RatMul(Num(n_participants), intervention.cost_per_employee), 100),
                     intervention_type |-> intervention.type],
                    <<data>>)

\* line 8: hiring_pipeline.groupby('role')['conversion_rate'].mean() at one
\* role; NaN for a role the pipeline has no row of
avg_conversion(hiring_pipeline, role) ==
    LET rates == Column(hiring_pipeline, "conversion_rate")
        rows == {i \in 1..NumRows(hiring_pipeline) :
                    /\ Column(hiring_pipeline, "role").vals[i] = role
                    /\ rates.vals[i].k = "num"}
    IN  IF rows = {} \/ IsNull(role) THEN NaN
        ELSE RatMul(SumRows(rates, rows), Frac(1, Cardinality(rows)))

\* product of two cells, NaN when one is missing
Times(a, b) == IF a.k = "num" /\ b.k = "num" THEN RatMul(a, b) ELSE NaN

\* Series.sum(): the missing values are skipped
SumOf(cells) ==
    SumRows([vals |-> cells], {i \in 1..Len(cells) : cells[i].k = "num"})

\* a role the pipeline does not list counted as converting no candidate
ConversionRate_zero(hiring_pipeline, role) ==
    IF IsNull(avg_conversion(hiring_pipeline, role)) THEN Num(0)
    ELSE avg_conversion(hiring_pipeline, role)

\* lines 11-12: the left merge and fillna(1.0)
ConversionRate(hiring_pipeline, role) ==
    IF IsNull(avg_conversion(hiring_pipeline, role)) THEN Num(1)
    ELSE avg_conversion(hiring_pipeline, role)

\* forecast_workforce_plan(headcount_plan, hiring_pipeline): merge returns a
\* new table, the columns are added to it
forecast_workforce_plan(headcount_plan, hiring_pipeline) ==
    IF Lacks(hiring_pipeline, {"role", "conversion_rate"})
       \/ Lacks(headcount_plan, {"role", "planned_hires", "avg_salary"})
    THEN Raises("KeyError", <<headcount_plan, hiring_pipeline>>)
    ELSE LET n == NumRows(headcount_plan)
             role == Column(headcount_plan, "role").vals
             expected_hires ==
                [i \in 1..n |-> Times(Column(headcount_plan, "planned_hires").vals[i],
                                      ConversionRate(hiring_pipeline, role[i]))]
             \* lines 16-17: 30% overhead
             total_cost ==
                [i \in 1..n |-> Times(expected_hires[i],
                                      Times(Column(headcount_plan, "avg_salary").vals[i],
                                            Frac(13, 10)))]
         IN  Returns([next_quarter_hires |-> IntOf(SumOf(expected_hires)),
                      budget_impact |-> RoundTo(SumOf(total_cost), 100),
                      by_role |-> [i \in 1..n |->
                                      [role |-> role[i],
                                       expected_hires |-> expected_hires[i],
                                       total_cost |-> total_cost[i]]]],
                     <<headcount_plan, hiring_pipeline>>)

\* str.lower() on the strings of the model
Lower(str) ==
    CASE str \in {"Female", "FEMALE", "female"} -> "female"
      [] str \in {"Male", "male"} -> "male"
      [] str = "Python" -> "python"
      [] str = "SQL" -> "sql"
      [] str = "Git" -> "git"
      [] str = "Agile" -> "agile"
      [] str = "Testing" -> "testing"
      [] OTHER -> str

\* the job roles of the model that match 'Manager|Director|VP|C-Level'
LeaderRoles == {"IT Manager", "HR Director"}

\* the .str accessor raises on a column that is not of dtype object
StrRaises(col) == col.dtype # STRING_

\* the rows whose gender is spelled exactly 'female'
IsFemale_exact(c) == c.k = "str" /\ c.s = "female"

\* df['Gender'].str.lower() == 'female' at one cell
IsFemale(c) == c.k = "str" /\ Lower(c.s) = "female"

\* str.contains(..., case=False, na=False) at one cell
IsLeader(c) == c.k = "str" /\ c.s \in LeaderRoles

\* monitor_diversity(df): the table is only read.  Of the mapping returned,
\* the two ratios are modelled
monitor_diversity(data) ==
    \* line 9
    IF Lacks(data, {"Gender"}) THEN Raises("KeyError", <<data>>)
    ELSE IF StrRaises(Column(data, "Gender")) THEN Raises("AttributeError", <<data>>)
    \* line 10
    ELSE IF Lacks(data, {"JobRole"}) THEN Raises("KeyError", <<data>>)
    ELSE IF StrRaises(Column(data, "JobRole")) THEN Raises("AttributeError", <<data>>)
    \* lines 16-38
    ELSE IF Lacks(data, {"EducationField", "Attrition", "Salary", "Education",
                         "MaritalStatus", "Department"})
    THEN Raises("KeyError", <<data>>)
    ELSE LET total == NumRows(data)
             female == {i \in 1..total : IsFemale(Column(data, "Gender").vals[i])}
             leaders == {i \in 1..total : IsLeader(Column(data, "JobRole").vals[i])}
         IN  Returns([gender_ratio |->
                          IF total # 0 THEN Frac(Cardinality(female), total) ELSE None,
                      female_leadership_ratio |->
                          IF leaders # {}
                          THEN Frac(Cardinality(female \cap leaders), Cardinality(leaders))
                          ELSE None],
                     <<data>>)

\* ROLE_SKILLS_MAP.get(job_role, []) for the roles of the model
ROLE_SKILLS_MAP(job_role) ==
    IF job_role = Str("Developer") THEN {"Python", "SQL", "Git", "Agile", "Testing"}
    ELSE {}

\* the lower-cased skills in the order sorted() gives
SortedSkills == <<"agile", "git", "python", "sql", "testing">>

\* dict.get(key, default)
Get(dict, key, default) == IF key \in DOMAIN dict THEN dict[key] ELSE default

\* line 90: [skill_course_map[skill] for skill in missing if skill in
\* skill_course_map]; missing holds lower-cased skills
Courses(missing, skill_course_map) ==
    [j \in 1..Len(SelectSeqBy(missing, DOMAIN skill_course_map)) |->
        skill_course_map[SelectSeqBy(missing, DOMAIN skill_course_map)[j]]]

\* lines 68-98 for one row.  A resume text is the set of lower-cased words
\* and phrases in it
SkillGapOfRow(emp_id, job_role, resume_texts, transcripts, skill_course_map) ==
    LET required == {Lower(sk) : sk \in ROLE_SKILLS_MAP(job_role)}
        text == Get(resume_texts, emp_id, {})
        found_from_resume == {Lower(k) : k \in DOMAIN skill_course_map} \cap text
        found_from_transcript == {Lower(tok) : tok \in Range(Get(transcripts, emp_id, <<>>))}
        missing == SelectSeqBy(SortedSkills,
                               required \ (found_from_resume \cup found_from_transcript))
        recs == Courses(missing, skill_course_map)
    IN  [employee_id |-> emp_id, job_role |-> job_role, missing_skills |-> missing,
         recommendations |->
            IF recs # <<>> THEN recs
            ELSE <<"No mapped course; consider custom training">>]

\* analyze_skill_gap(df, resume_texts, transcripts, skill_course_map): the
\* rows are read with iterrows
analyze_skill_gap(data, resume_texts, transcripts, skill_course_map) ==
    IF NumRows(data) > 0 /\ Lacks(data, {"EmployeeNumber", "JobRole"})
    THEN Raises("KeyError", <<data>>)
    ELSE Returns([i \in 1..NumRows(data) |->
                    SkillGapOfRow(Column(data, "EmployeeNumber").vals[i],
                                  Column(data, "JobRole").vals[i],
                                  resume_texts, transcripts, skill_course_map)],
                 <<data>>)

----------------------------------------------------------------------------
(* The calls of the agent functions.  The functions keep nothing between   *)
(* calls: a behaviour is one call on one choice of arguments                *)

\* the outcome of a call of an agent function: with the tables passed to it
\* before and after the call, and its other arguments
Called(op, r, before, args) ==
    [op |-> op, outcome |-> r.outcome, errors |-> <<>>, out |-> r.out, steps |-> <<>>,
     fresh |-> FALSE, before |-> before, after |-> r.tables, args |-> args]

TimeLogsOf(n) ==
    {BuildTable(<<Col("task_id", INTEGER, Repeat(Num(1), n)),
                  Col("user_id", INTEGER, Repeat(Num(7), n)),
                  start,
                  Col("end_time", STRING_, Repeat(Str("2023-12-31"), n))>>) :
        start \in {Col("start_time", STRING_, Repeat(Str("2020-01-31"), n)),
                   Col("start_time", DATETIME, Repeat(Ts(1), n)),
                   Col("start_time", STRING_, Repeat(Str("x"), n)),
                   Absent("start_time")}}

TimeLogs == UNION {TimeLogsOf(n) : n \in 0..MaxRowsV}

TaskLogsOf(n) ==
    {BuildTable(<<Col("task_id", INTEGER, Repeat(Num(1), n)),
                  Col("task_type", STRING_, Repeat(Str("x"), n)),
                  Col("priority", INTEGER, Repeat(Num(1), n)),
                  created, completed>>) :
        created \in {Col("created_at", STRING_, Repeat(Str("2020-01-31"), n)),
                     Col("created_at", DATETIME, Repeat(Ts(1), n)),
                     Col("created_at", STRING_, Repeat(Str("x"), n)),
                     Absent("created_at")},
        completed \in
            {Col("completed_at", STRING_, v) : v \in NonDecSeqs(<<Str("2023-12-31"), NaN>>, n)}
            \cup {Col("completed_at", DATETIME, v) : v \in NonDecSeqs(<<Ts(2), NaT>>, n)}
            \cup {Col("completed_at", STRING_, Repeat(Str("x"), n)), Absent("completed_at")}}

TaskLogs == UNION {TaskLogsOf(n) : n \in 0..MaxRowsV}

AttritedTablesOf(n) ==
    {BuildTable(<<Col("employee_id", INTEGER, [i \in 1..n |-> Num(i)]), attrited>>) :
        attrited \in
            {Col("attrited", INTEGER, v) : v \in NonDecSeqs(<<Num(0), Num(1)>>, n)}
            \cup {Col("attrited", INTEGER, Repeat(Num(2), n)),
                  Col("attrited", FLOAT, Repeat(NaN, n)),
                  Col("attrited", STRING_, Repeat(Str("Yes"), n)),
                  Absent("attrited")}}

AttritedTables == UNION {AttritedTablesOf(n) : n \in 0..MaxRowsA}

Interventions ==
    {[type |-> "Career Development Program", effect_size_pct |-> Num(e),
      cost_per_employee |-> Num(5000)] : e \in {0, 30, 50, 100, 150}}

ParticipationRates == {Num(0), Frac(1, 3), Frac(1, 2), Num(1), Frac(3, 2)}

HeadcountPlansOf(n) ==
    {BuildTable(<<Col("role", STRING_, role), planned,
                  Col("avg_salary", INTEGER, Repeat(Num(salary), n))>>) :
        role \in NonDecSeqs(<<Str("Developer"), Str("Analyst"), NaN>>, n),
        planned \in {Col("planned_hires", INTEGER, v) : v \in NonDecSeqs(<<Num(0), Num(3)>>, n)}
                    \cup {Col("planned_hires", INTEGER, Repeat(Num(0 - 3), n)),
                          Col("planned_hires", FLOAT, Repeat(NaN, n)),
                          Absent("planned_hires")},
        salary \in {100000, 0 - 100000}}

HeadcountPlans == UNION {HeadcountPlansOf(n) : n \in 0..MaxRowsP}

HiringPipelinesOf(n) ==
    {BuildTable(<<Col("role", STRING_, role), rate>>) :
        role \in NonDecSeqs(<<Str("Developer"), Str("Analyst")>>, n),
        rate \in {Col("conversion_rate", FLOAT, v) :
                    v \in [1..n -> {Num(0), Frac(7, 10), Num(1), Frac(3, 2), NaN}]}
                 \cup {Absent("conversion_rate")}}

HiringPipelines == UNION {HiringPipelinesOf(n) : n \in 0..MaxRowsP}

DiversityTablesOf(n) ==
    {BuildTable(<<Col("EmployeeNumber", INTEGER, [i \in 1..n |-> Num(i)]),
                  gender, job_role,
                  Col("EducationField", STRING_, Repeat(Str("x"), n)),
                  Col("Attrition", STRING_, Repeat(Str("No"), n)),
                  Col("Salary", INTEGER, Repeat(Num(30000), n)),
                  Col("Education", INTEGER, Repeat(Num(1), n)),
                  Col("MaritalStatus", STRING_, Repeat(Str("x"), n)),
                  department>>) :
        gender \in {Col("Gender", STRING_, v) :
                        v \in NonDecSeqs(<<Str("Female"), Str("female"), Str("Male"), NaN>>, n)}
                   \cup {Col("Gender", FLOAT, Repeat(NaN, n)), Absent("Gender")},
        job_role \in {Col("JobRole", STRING_, Repeat(Str("IT Manager"), n)),
                      Col("JobRole", STRING_, Repeat(Str("Developer"), n)),
                      Absent("JobRole")},
        department \in {Col("Department", STRING_, Repeat(Str("HR"), n)),
                        Absent("Department")}}

DiversityTables == UNION {DiversityTablesOf(n) : n \in 0..MaxRowsA}

SkillTablesOf(n) ==
    {BuildTable(<<number, Col("JobRole", STRING_, role)>>) :
        number \in {Col("EmployeeNumber", INTEGER, [i \in 1..n |-> Num(i)]),
                    Absent("EmployeeNumber")},
        role \in NonDecSeqs(<<Str("Developer"), Str("Data Scientist"), NaN>>, n)}

SkillTables == UNION {SkillTablesOf(n) : n \in 0..MaxRowsV}

\* resume texts of employee 1, by the skills they name
ResumeTexts == {<<>>, (Num(1) :> {"python", "sql"}), (Num(1) :> {})}

Transcripts ==
    {<<>>, (Num(1) :> <<"Python">>), (Num(1) :> <<"Git", "Agile", "Testing", "SQL", "Python">>)}

\* skill -> course, with the keys capitalised as in ROLE_SKILLS_MAP or
\* lower-cased
SkillCourseMaps ==
    {<<>>}
    \cup {[k \in K |-> <<"course", k>>] :
            K \in {{"Python", "SQL"}, {"python", "sql"},
                   {"python", "sql", "git", "agile", "testing"}}}

InitAgents ==
    /\ df = <<>>
    /\ df0 = <<>>
    /\ last = Idle
    /\ agent = NewAgent
    /\ built = Nothing
    /\ disk = NoFiles
    /\ config = DefaultConfig
    /\ elsewhere = NoFiles
    /\ origin = Untracked
    /\ app = NoRoutes

\* analyze_productivity(time_logs, task_logs)
CallAnalyzeProductivity ==
    /\ last = Idle
    /\ \E time_logs \in TimeLogs, task_logs \in TaskLogs :
        \E r \in {analyze_productivity(time_logs, task_logs)} :
            /\ last' = Called("analyze_productivity", r, <<time_logs, task_logs>>, <<>>)
            /\ df' = r.tables[2]
            /\ df0' = task_logs
            /\ UNCHANGED <<agent, built, disk, config, elsewhere, origin, app>>

\* simulate_attrition_interventions(df, intervention, participation_rate);
\* data.sample picks the participants
CallSimulateAttritionInterventions ==
    /\ last = Idle
    /\ \E data \in AttritedTables, intervention \in Interventions,
       participation_rate \in ParticipationRates :
        \E sample \in {S \in SUBSET (1..NumRows(data)) :
                          Cardinality(S) = IntOf(RatMul(Num(NumRows(data)), participation_rate))
                          \/ (S = {} /\ participation_rate = Frac(3, 2))} :
            \E r \in {simulate_attrition_interventions(data, intervention,
                                                       participation_rate, sample)} :
                /\ last' = Called("simulate_attrition_interventions", r, <<data>>,
                                  [intervention |-> intervention,
                                   participation_rate |-> participation_rate,
                                   sample |-> sample])
                /\ df' = r.tables[1]
                /\ df0' = data
                /\ UNCHANGED <<agent, built, disk, config, elsewhere, origin, app>>

\* forecast_workforce_plan(headcount_plan, hiring_pipeline)
CallForecastWorkforcePlan ==
    /\ last = Idle
    /\ \E headcount_plan \in HeadcountPlans, hiring_pipeline \in HiringPipelines :
        \E r \in {forecast_workforce_plan(headcount_plan, hiring_pipeline)} :
            /\ last' = Called("forecast_workforce_plan", r,
                              <<headcount_plan, hiring_pipeline>>, <<>>)
            /\ df' = r.tables[1]
            /\ df0' = headcount_plan
            /\ UNCHANGED <<agent, built, disk, config, elsewhere, origin, app>>

\* monitor_diversity(df)
CallMonitorDiversity ==
    /\ last = Idle
    /\ \E data \in DiversityTables :
        \E r \in {monitor_diversity(data)} :
            /\ last' = Called("monitor_diversity", r, <<data>>, <<>>)
            /\ df' = r.tables[1]
            /\ df0' = data
            /\ UNCHANGED <<agent, built, disk, config, elsewhere, origin, app>>

\* analyze_skill_gap(df, resume_texts, transcripts, skill_course_map)
CallAnalyzeSkillGap ==
    /\ last = Idle
    /\ \E data \in SkillTables, resume_texts \in ResumeTexts, transcripts \in Transcripts,
       skill_course_map \in SkillCourseMaps :
        \E r \in {analyze_skill_gap(data, resume_texts, transcripts, skill_course_map)} :
            /\ last' = Called("analyze_skill_gap", r, <<data>>,
                              [resume_texts |-> resume_texts, transcripts |-> transcripts,
                               skill_course_map |-> skill_course_map])
            /\ df' = r.tables[1]
            /\ df0' = data
            /\ UNCHANGED <<agent, built, disk, config, elsewhere, origin, app>>

NextAgents ==
    \/ CallAnalyzeProductivity
    \/ CallSimulateAttritionInterventions
    \/ CallForecastWorkforcePlan
    \/ CallMonitorDiversity
    \/ CallAnalyzeSkillGap

SpecAgents == InitAgents /\ [][NextAgents]_vars

AgentFunctions ==
    {"analyze_productivity", "simulate_attrition_interventions",
     "forecast_workforce_plan", "monitor_diversity", "analyze_skill_gap"}

\* C22: after a call of an agent function, every table passed to it has the
\* columns, dtypes and values it had before the call.
C22_InputTablesUnchanged ==
    last.op \in AgentFunctions => last.after = last.before

\* the rows of a table whose gender reads 'female' in any capitalisation
FemaleRows(data) ==
    {i \in 1..NumRows(data) :
        Column(data, "Gender").vals[i] \in {Str("Female"), Str("FEMALE"), Str("female")}}

InUnit(q) == q.k = "num" /\ ~RatLess(q, Num(0)) /\ ~RatLess(Num(1), q)

\* the rows of a table marked as attrited
AttritedRows(data) ==
    {i \in 1..NumRows(data) : Column(data, "attrited").vals[i] = Num(1)}

\* every row is marked 0 or 1
ZeroOne(data) ==
    /\ ~Lacks(data, {"attrited"})
    /\ \A i \in 1..NumRows(data) : Column(data, "attrited").vals[i] \in {Num(0), Num(1)}

\* the largest integer not above rows x rate
FloorOfShare(rows, rate) ==
    CHOOSE k \in 0..(2 * rows) :
        /\ k * rate.d <= rows * rate.n
        /\ (k + 1) * rate.d > rows * rate.n

\* a call of simulate_attrition_interventions on a table with rows, a
\* participation rate in [0, 1] and an effect size in [0, 100]
SimulationInRange ==
    /\ last.op = "simulate_attrition_interventions"
    /\ NumRows(df0) > 0
    /\ InUnit(last.args.participation_rate)
    /\ ~RatLess(last.args.intervention.effect_size_pct, Num(0))
    /\ ~RatLess(Num(100), last.args.intervention.effect_size_pct)

\* what the result of a simulation is bounded by
SimulationBounded ==
    LET out == last.out
        rows == NumRows(df0)
    IN  /\ InUnit(out.baseline_attrition_rate)
        /\ InUnit(out.projected_attrition_rate)
        /\ InUnit(out.baseline_retention_rate)
        /\ InUnit(out.projected_retention_rate)
        /\ out.attritions_rescued >= 0
        /\ out.attritions_rescued <= Cardinality(AttritedRows(df0))
        /\ ~RatLess(out.baseline_attrition_rate, out.projected_attrition_rate)
        /\ out.employees_participating = FloorOfShare(rows, last.args.participation_rate)
        /\ last.args.participation_rate = Num(1) => out.employees_participating = rows

NonNegative(c) == c.k = "num" /\ ~RatLess(c, Num(0))

\* the hiring pipeline has conversion rates, all of them in [0, 1]
RatesInUnit(hiring_pipeline) ==
    /\ ~Lacks(hiring_pipeline, {"role", "conversion_rate"})
    /\ \A i \in 1..NumRows(hiring_pipeline) :
            InUnit(Column(hiring_pipeline, "conversion_rate").vals[i])

\* the headcount plan has planned hires and salaries, none of them negative
PlanNonNegative(headcount_plan) ==
    /\ ~Lacks(headcount_plan, {"role", "planned_hires", "avg_salary"})
    /\ \A i \in 1..NumRows(headcount_plan) :
            /\ NonNegative(Column(headcount_plan, "planned_hires").vals[i])
            /\ NonNegative(Column(headcount_plan, "avg_salary").vals[i])

\* the roles a hiring pipeline has rows of
PipelineRoles(hiring_pipeline) ==
    {Column(hiring_pipeline, "role").vals[i] : i \in 1..NumRows(hiring_pipeline)}

\* what C27 says of a forecast, for the plan and the pipeline of the call
ForecastAsPlanned ==
    LET headcount_plan == last.before[1]
        hiring_pipeline == last.before[2]
        n == NumRows(headcount_plan)
        planned == Column(headcount_plan, "planned_hires").vals
        by_role == last.out.by_role
    IN  /\ Len(by_role) = n
        /\ \A i \in 1..n :
            /\ by_role[i].role = Column(headcount_plan, "role").vals[i]
            /\ NonNegative(by_role[i].expected_hires)
            /\ NonNegative(by_role[i].total_cost)
            /\ by_role[i].role \notin PipelineRoles(hiring_pipeline)
                    => by_role[i].expected_hires = planned[i]
        /\ ~RatLess(SumOf(planned), Num(last.out.next_quarter_hires))

\* C27 as stated: for every headcount plan and every hiring pipeline with
\* conversion rates in [0, 1], the forecast counts a role absent from the
\* pipeline at rate 1, has one by_role entry per row of the plan, with
\* expected_hires >= 0 and total_cost >= 0, and next_quarter_hires is not
\* above the sum of planned_hires.
C27_ForecastAnyPlan ==
    (/\ last.op = "forecast_workforce_plan"
     /\ last.outcome = "ok"
     /\ RatesInUnit(last.before[2])) => ForecastAsPlanned

\* C27, for plans without negative or missing numbers: when moreover no
\* planned_hires and no avg_salary of the plan is negative or missing, the
\* call returns and the forecast is as above.
C27_Forecast ==
    (/\ last.op = "forecast_workforce_plan"
     /\ RatesInUnit(last.before[2])
     /\ PlanNonNegative(last.before[1])) => (last.outcome = "ok" /\ ForecastAsPlanned)

\* a plan of two roles, one of them absent from the pipeline and hired as
\* planned, the other converted at 7/10
C27_Witness ==
    /\ last.op = "forecast_workforce_plan"
    /\ RatesInUnit(last.before[2])
    /\ PlanNonNegative(last.before[1])
    /\ Len(last.out.by_role) = 2
    /\ last.out.by_role[1].role = Str("Developer")
    /\ Str("Developer") \notin PipelineRoles(last.before[2])
    /\ last.out.by_role[1].expected_hires = Num(3)
    /\ last.out.by_role[2].role = Str("Analyst")
    /\ last.out.by_role[2].expected_hires = Frac(21, 10)
    /\ last.out.next_quarter_hires = 5


\* C28: analyze_skill_gap returns one result per row of the table, and in
\* every result the recommendations are not empty and are at least as many
\* as the missing skills.
C28_RecommendationsCoverMissing ==
    (last.op = "analyze_skill_gap" /\ last.outcome = "ok") =>
        /\ Len(last.out) = NumRows(df0)
        /\ \A i \in 1..Len(last.out) :
            /\ Len(last.out[i].recommendations) > 0
            /\ Len(last.out[i].recommendations) >= Len(last.out[i].missing_skills)


----------------------------------------------------------------------------
(* One agent serving several requests: BaseAgent.preprocess_data called on  *)
(* one table after another                                                  *)

ServiceTablesOf(n) ==
    {BuildTable(<<Conforming("EmployeeNumber", n),
                  Col("Age", INTEGER, age),
                  Col("Department", STRING_, department),
                  Conforming("Attrition", n)>>) :
        age \in NonDecSeqs(<<Num(20), Num(60)>>, n),
        department \in NonDecSeqs(<<Str("HR"), Str("IT"), NaN>>, n)}

ServiceTables == UNION {ServiceTablesOf(n) : n \in 0..MaxRowsV}

InitService ==
    /\ df \in ServiceTables
    /\ df0 = df
    /\ last = Idle
    /\ agent = NewAgent
    /\ built = Nothing
    /\ disk = NoFiles
    /\ config = DefaultConfig
    /\ elsewhere = NoFiles
    /\ origin = Untracked
    /\ app = NoRoutes

\* the next request brings another table
NextRequest ==
    /\ last # Idle
    /\ df' \in ServiceTables
    /\ df0' = df'
    /\ last' = Idle
    /\ UNCHANGED <<agent, built, disk, config, elsewhere, origin, app>>

NextService == CallBasePreprocess \/ NextRequest

SpecService == InitService /\ [][NextService]_vars

\* the step is a call of BaseAgent.preprocess_data
PreprocessCalled == last'.op = "BaseAgent.preprocess_data"

\* the columns the objects of self.encoders or self.scalers are kept under
Keys(fitters) == {fitters[i].col : i \in 1..Len(fitters)}

\* the agent holds an encoder and a scaler for every configured column of t
AllHeld(ag, t) ==
    /\ \A i \in 1..Len(categorical_columns) :
            HasColumn(t, categorical_columns[i])
                => categorical_columns[i] \in Keys(ag.encoders)
    /\ \A i \in 1..Len(numeric_columns) :
            HasColumn(t, numeric_columns[i])
                => numeric_columns[i] \in Keys(ag.scalers)

----------------------------------------------------------------------------
(* api/base_api.py, api/attrition_api.py *)

\* what a call at the API boundary leaves: "ok" or the exception, the status
\* code of the HTTPException (0 when none is raised), the value returned
Answer(outcome, status, ret) == [outcome |-> outcome, status |-> status, ret |-> ret]

\* BaseAPI.validate_data: the value of agent.validate_input(data), which
\* catches every exception of the validation and returns False; the except
\* ValueError clause of line 41 is never entered
BaseAPI_validate_data(data) == Answer("ok", 0, validate_input(data))

\* BaseAPI.handle_error: the status code of the HTTPException it raises
handle_error(error) == IF error \in {"ValueError", "KeyError"} THEN 400 ELSE 500

\* the POST /api/attrition/analyze handler: the value of validate_data is
\* not looked at; analyze validates again and raises ValueError; line 51
\* calls tolist() on the DataFrame analyze returns under 'risk_scores'
analyze_attrition(data, test, ag, files) ==
    The({[status |-> IF r.outcome = "ok" THEN handle_error("AttributeError")
                     ELSE handle_error(r.outcome),
          validated |-> BaseAPI_validate_data(data).ret,
          agent |-> r.agent, disk |-> r.disk, steps |-> r.steps] :
            r \in {analyze(data, test, ag, files)}})

InitApi ==
    /\ df \in ValidationTables
    /\ df0 = df
    /\ last = Idle
    /\ agent = NewAgent
    /\ built = Nothing
    /\ disk = NoFiles
    /\ config = DefaultConfig
    /\ elsewhere = NoFiles
    /\ origin = Untracked
    /\ app = NoRoutes

\* attrition_api.validate_data(df)
CallApiValidateData ==
    \E r \in {BaseAPI_validate_data(df)} :
        /\ last' = [Result("validate_data", r.outcome, <<>>, <<>>, <<>>)
                        EXCEPT !.fresh = TRUE] @@ [status |-> r.status, ret |-> r.ret]
        /\ df0' = df
        /\ UNCHANGED <<df, agent, built, disk, config, elsewhere, origin, app>>

\* POST /api/attrition/analyze with the table df
PostAnalyzeAttrition ==
    \E test \in Splits(NumRows(df)) :
        \E r \in {analyze_attrition(df, test, agent, disk)} :
            /\ last' = [Result("analyze_attrition", "HTTPException", <<>>, <<>>, r.steps)
                            EXCEPT !.fresh = TRUE] @@ [status |-> r.status, ret |-> r.validated]
            /\ agent' = r.agent
            /\ disk' = r.disk
            /\ df0' = df
            /\ UNCHANGED <<df, built, config, elsewhere, origin, app>>

NextApi == CallApiValidateData \/ PostAnalyzeAttrition

SpecApi == InitApi /\ [][NextApi]_vars

\* C24: BaseAPI.validate_data returns True for a table that passes the
\* schema validation and raises an HTTP 400 error for a table that fails it
\* or is empty, and a request whose table fails is answered 400 without the
\* prediction being run.
C24_ValidationFailureIs400 ==
    /\ last.op = "validate_data" =>
            IF validate_input(df0) THEN last.outcome = "ok" /\ last.ret
            ELSE last.outcome = "HTTPException" /\ last.status = 400
    /\ (last.op = "analyze_attrition" /\ ~validate_input(df0)) =>
            last.status = 400 /\ "load" \notin Range(last.steps)

----------------------------------------------------------------------------
(* agents/attrition_agent.py, lines 66-76 and 157-168: the three dumps of   *)
(* train_model, any of which may fail.  origin tells which training run     *)
(* each file of the model directory was written by: 0 for a file that is    *)
(* not there, k for the file run k dumped, -k for a file run k opened and   *)
(* did not finish writing                                                   *)

\* the training runs of a behaviour
MaxRuns == 3

\* the files in the order train_model dumps them, lines 68-70
DumpOrder == <<"model", "scaler", "features">>

\* joblib.dump of one file by a run: it opens the file for writing, which
\* empties it, and writes the object
Dump(files, f, run) == [files EXCEPT ![f] = run]

\* a dump that fails: before it opened the file, or after
FailedDump(files, f, run, torn) == IF torn THEN [files EXCEPT ![f] = 0 - run] ELSE files

\* lines 68-70 of a run of which the first `dumped' dumps succeed: the
\* exception of the next one leaves train_model (lines 74-76), and nothing
\* undoes the dumps made
RECURSIVE DumpAll(_, _, _, _, _)
DumpAll(files, i, run, dumped, torn) ==
    IF i > Len(DumpOrder) THEN files
    ELSE IF i > dumped THEN FailedDump(files, DumpOrder[i], run, torn)
    ELSE DumpAll(Dump(files, DumpOrder[i], run), i + 1, run, dumped, torn)

\* joblib.load succeeds on a file that is there and was written to its end
LoadsFrom(files, f) == files[f] > 0

\* AttritionAgent.train_model, the run counted whether it saves or not
SaveOfRun(files, dumped, torn) ==
    [DumpAll(files, 1, files.runs + 1, dumped, torn) EXCEPT !.runs = files.runs + 1]

InitSaving ==
    /\ df = <<>>
    /\ df0 = <<>>
    /\ last = Idle
    /\ agent = NewAgent
    /\ built = Nothing
    /\ disk = NoFiles
    /\ config = DefaultConfig
    /\ elsewhere = NoFiles
    /\ origin = Untracked
    /\ app = NoRoutes

\* agent.train_model(df): it fails before saving (dumped = 0, nothing
\* opened), at one of the dumps, or returns
TrainModelSaving ==
    /\ origin.runs < MaxRuns
    /\ \E dumped \in 0..Len(DumpOrder), torn \in BOOLEAN :
        /\ (dumped = Len(DumpOrder)) => ~torn
        /\ origin' = SaveOfRun(origin, dumped, torn)
        /\ last' = Result("train_model",
                          IF dumped = Len(DumpOrder) THEN "ok" ELSE "OSError",
                          <<>>, <<>>, <<>>)
        /\ UNCHANGED <<df, df0, agent, built, disk, config, elsewhere, app>>

\* predict_attrition(df), lines 159-168: the three files are loaded; when a
\* load raises, the model is trained again and the feature list dumped once
\* more
PredictAttritionSaving ==
    /\ origin.runs < MaxRuns
    /\ IF \A i \in 1..Len(DumpOrder) : LoadsFrom(origin, DumpOrder[i])
       THEN /\ origin' = origin
            /\ last' = Result("predict_attrition", "ok", <<>>, <<>>, <<"load">>)
       ELSE \E dumped \in 0..Len(DumpOrder), torn \in BOOLEAN, again \in {"ok", "failed", "torn"} :
            /\ (dumped = Len(DumpOrder)) => ~torn
            /\ (dumped < Len(DumpOrder)) => again = "ok"
            /\ origin' =
                 LET saved == SaveOfRun(origin, dumped, torn)
                 IN  IF dumped < Len(DumpOrder) \/ again = "failed" THEN saved
                     ELSE IF again = "torn"
                          THEN FailedDump(saved, "features", saved.runs, TRUE)
                          ELSE Dump(saved, "features", saved.runs)
            /\ last' = Result("predict_attrition",
                              IF dumped = Len(DumpOrder) /\ again = "ok"
                              THEN "ok" ELSE "OSError",
                              <<>>, <<>>, <<"load", "train">>)
    /\ UNCHANGED <<df, df0, agent, built, disk, config, elsewhere, app>>

NextSaving == TrainModelSaving \/ PredictAttritionSaving

SpecSaving == InitSaving /\ [][NextSaving]_vars

\* C29: whatever calls of train_model were made and wherever they failed,
\* the classifier, the scaler and the feature list in the model directory
\* are all absent, or all three are the files one training run wrote.
C29_ArtifactsOfOneRun ==
    \/ origin.model = 0 /\ origin.scaler = 0 /\ origin.features = 0
    \/ origin.model > 0 /\ origin.scaler = origin.model /\ origin.features = origin.model

----------------------------------------------------------------------------
(* api/main.py, api/base_api.py: the start-up of the application.  app is   *)
(* the list of the routes registered on the FastAPI app by the decorators   *)
(* @app.get and @app.post, in the order of their registration.  main.py     *)
(* constructs the five APIs, calls setup_routes on each, and registers the  *)
(* root route; the five constructions may come in any order, and so may     *)
(* the five calls                                                           *)

Route(method, path) == [method |-> method, path |-> path]

\* the classes main.py constructs, lines 25-29
Apis == {"AttritionAPI", "DiversityAPI", "SkillGapAPI", "PlanningAPI", "SimulationAPI"}

\* setup_routes of each class: the routes its decorators register
RoutesOf(api) ==
    CASE api = "AttritionAPI" ->
            <<Route("POST", "/api/attrition/analyze"),
              Route("GET", "/api/attrition/feature-importance")>>
      [] api = "DiversityAPI" ->
            <<Route("POST", "/api/diversity/analyze"),
              Route("GET", "/api/diversity/metrics")>>
      [] api = "SkillGapAPI" ->
            <<Route("POST", "/api/skill-gap/analyze"),
              Route("GET", "/api/skill-gap/required-skills")>>
      [] api = "PlanningAPI" ->
            <<Route("POST", "/api/planning/forecast"),
              Route("GET", "/api/planning/roles"),
              Route("GET", "/api/planning/salary-ranges")>>
      [] api = "SimulationAPI" ->
            <<Route("POST", "/api/simulation/attrition"),
              Route("GET", "/api/simulation/interventions")>>

\* main.py line 38
RootRoute == Route("GET", "/")

\* how many times a route is in the list
Registrations(routes, route) == Cardinality({i \in DOMAIN routes : routes[i] = route})

\* setup_routes(): every decorator appends its route; nothing looks for a
\* route registered before
setup_routes(routes, api) == routes \o RoutesOf(api)

\* BaseAPI.__init__, lines 18-20, reached through super().__init__ by every
\* class: it ends by calling self.setup_routes()
BaseAPI_init(routes, api) == setup_routes(routes, api)

\* the API object exists: its constructor has run
Constructed(api) == Registrations(app, RoutesOf(api)[1]) >= 1

\* main.py has called setup_routes on the object
SetUp(api) == Registrations(app, RoutesOf(api)[1]) >= 2

InitStartup ==
    /\ df = <<>>
    /\ df0 = <<>>
    /\ last = Idle
    /\ agent = NewAgent
    /\ built = Nothing
    /\ disk = NoFiles
    /\ config = DefaultConfig
    /\ elsewhere = NoFiles
    /\ origin = Untracked
    /\ app = NoRoutes

\* main.py lines 25-29: one of the five constructions
ConstructApi ==
    /\ \E api \in Apis :
        /\ ~Constructed(api)
        /\ app' = BaseAPI_init(app, api)
        /\ last' = Result(api, "ok", <<>>, <<>>, <<>>)
    /\ UNCHANGED <<df, df0, agent, built, disk, config, elsewhere, origin>>

\* main.py lines 32-36: one of the five calls of setup_routes, once the five
\* objects are there
CallSetupRoutes ==
    /\ \A api \in Apis : Constructed(api)
    /\ \E api \in Apis :
        /\ ~SetUp(api)
        /\ app' = setup_routes(app, api)
        /\ last' = Result("setup_routes", "ok", <<>>, <<>>, <<>>)
    /\ UNCHANGED <<df, df0, agent, built, disk, config, elsewhere, origin>>

\* main.py lines 38-52: the root route, after the five calls
RegisterRoot ==
    /\ \A api \in Apis : SetUp(api)
    /\ Registrations(app, RootRoute) = 0
    /\ app' = Append(app, RootRoute)
    /\ last' = Result("root", "ok", <<>>, <<>>, <<>>)
    /\ UNCHANGED <<df, df0, agent, built, disk, config, elsewhere, origin>>

NextStartup == ConstructApi \/ CallSetupRoutes \/ RegisterRoot

SpecStartup == InitStartup /\ [][NextStartup]_vars

\* main.py has run to its end
Started == Registrations(app, RootRoute) >= 1

\* C30: once the application has started, every route, a method and a path,
\* is in the list of the app's routes exactly once.
C30_EachRouteOnce ==
    Started => \A i \in DOMAIN app : Registrations(app, app[i]) = 1

============================================================================
